---- MODULE Spec2Model ----
(***************************************************************************)
(* Rule registry of snakemake/workflow.py: Workflow.rule, Workflow.add_rule *)
(* and the decorate closure that finalizes a rule from its RuleInfo.         *)
(***************************************************************************)
EXTENDS Integers, Sequences, FiniteSets, TLC

(***************************************************************************)
(* Python values.  Every value is a record [t, v]: t is the Python type, v  *)
(* an integer payload.  A float carries its value in tenths (39 is 3.9).    *)
(***************************************************************************)
NoneV == [t |-> "none", v |-> 0]
IntV(n) == [t |-> "int", v |-> n]
FloatV(tenths) == [t |-> "float", v |-> tenths]
StrV(n) == [t |-> "str", v |-> n]
FuncV(n) == [t |-> "callable", v |-> n]

\* Python None where a name (a string) is expected
None == "None"

\* Python truthiness of a name: None and the empty string are falsy
Truthy(name) == name # None /\ name # ""

\* an optional object is a sequence of length 0 (None) or 1
Some(x) == <<x>>
Nothing == <<>>
IsSet(opt) == Len(opt) > 0
Get(opt) == opt[1]

(***************************************************************************)
(* Bounds of the model.                                                     *)
(***************************************************************************)
\* number of Workflow.rule calls in a run of the registry specification
MaxRules == 2
\* number of Workflow.rule calls in a run of the directive specification
MaxResRules == 1
\* depth of the modifier stack
MaxModifiers == 2

(***************************************************************************)
(* Constructor arguments of the Workflow (Workflow.__init__).               *)
(***************************************************************************)
ResKeys == {"_cores", "_nodes", "mem"}

\* self.global_resources: resources with _cores and _nodes added
global_resources ==
  [k \in ResKeys |-> CASE k = "_cores" -> IntV(4)
                       [] k = "_nodes" -> NoneV
                       [] OTHER -> IntV(1000)]

\* self._default_resources.parsed of DefaultResources(mode="bare")
default_resources_parsed == [k \in {"_cores", "_nodes"} |-> IntV(1)]

\* self._overwrite_threads: rule "a" has a CLI thread override
overwrite_threads == [k \in {"a"} |-> IntV(8)]

\* self._overwrite_resources: rule "b" has a CLI resource override
overwrite_resources == [k \in {"b"} |-> [r \in {"mem"} |-> IntV(500)]]

run_local == TRUE
restart_times == NoneV
global_container_img == None

VARIABLES
  rules,            \* self._rules: name -> Rule
  rule_count,       \* self.rule_count
  default_target,   \* self.default_target
  modifier_stack,   \* self.modifier_stack
  localrules,       \* self._localrules
  cache_rules,      \* self.cache_rules
  enable_cache,     \* self.enable_cache
  pending,          \* the closure returned by Workflow.rule, not yet applied
  error,            \* the exception that ended the definition pass, if any
  next_id,          \* identity of the next Rule object
  anon_count,       \* number of Workflow.rule calls made with name=None
  _ruleorder,       \* self._ruleorder: the clauses, in the order declared
  modules,          \* self.modules: the names registered by module statements
  call,             \* the last call made and its arguments
  pc,               \* Workflow.execute: the statement to run next
  arguments,        \* Workflow.execute: the arguments and answers read so far
  trace,            \* Workflow.execute: the calls made so far, in order
  result,           \* Workflow.execute: the value returned, or "raised"
  globals,          \* self.globals: the namespace of the definition pass
  globals_backup,   \* Workflow.execute: the local globals_backup
  updated_subworkflow_files,  \* dag.updated_subworkflow_files
  subsnakemake_calls,  \* the nested runs made: the arguments and the outcome of each
  targetrules,      \* Workflow.execute: the local targetrules, as rule names
  targetfiles,      \* Workflow.execute: the local targetfiles
  included_stack    \* Workflow.include: the calls in progress, each with its
                    \* local default_target and overwrite_default_target

\* the state of one call of Workflow.execute
exec_vars ==
  <<pc, arguments, trace, result, globals, globals_backup,
    updated_subworkflow_files, subsnakemake_calls, targetrules, targetfiles>>

\* the state written by the target resolution of Workflow.execute
target_vars == <<targetrules, targetfiles>>

\* the state written by the subworkflow phase of Workflow.execute
nested_vars ==
  <<globals, globals_backup, updated_subworkflow_files, subsnakemake_calls>>

\* lines 246-257: the names Workflow.__init__ binds in the namespace
vanilla_globals == [k \in {"workflow"} |-> "parent"]

\* the state written by the definition pass
definition_vars ==
  <<rules, rule_count, default_target, modifier_stack, localrules,
    cache_rules, enable_cache, pending, error, next_id, anon_count,
    _ruleorder, modules, call, included_stack>>

vars == <<definition_vars, exec_vars>>

\* execute has not been called
NotExecuting ==
  /\ pc = "not called"
  /\ arguments = <<>>
  /\ trace = <<>>
  /\ result = "none"
  /\ globals = vanilla_globals
  /\ globals_backup = <<>>
  /\ updated_subworkflow_files = {}
  /\ subsnakemake_calls = <<>>
  /\ targetrules = {}
  /\ targetfiles = {}

NoError == [type |-> "None", msg |-> ""]
Raise(type, msg) == [type |-> type, msg |-> msg]

(***************************************************************************)
(* str() of a positive integer, digit by digit.                             *)
(***************************************************************************)
Digit(d) == CASE d = 0 -> "0" [] d = 1 -> "1" [] d = 2 -> "2" [] d = 3 -> "3"
              [] d = 4 -> "4" [] d = 5 -> "5" [] d = 6 -> "6" [] d = 7 -> "7"
              [] d = 8 -> "8" [] d = 9 -> "9"

RECURSIVE str(_)
str(n) == IF n < 10 THEN Digit(n) ELSE str(n \div 10) \o Digit(n % 10)

(***************************************************************************)
(* WorkflowModifier: the fields Workflow.rule and Workflow.add_rule read.   *)
(***************************************************************************)
Modifier(allow, prefix, exclude) ==
  [allow_rule_overwrite |-> allow,
   rulename_prefix |-> prefix,
   rule_exclude_list |-> exclude,
   ruleinfo_overwrite |-> Nothing,
   rules |-> {}]

\* WorkflowModifier.__exit__ of every enclosing "with" block when an
\* exception leaves the definition pass: only the workflow's own modifier stays
unwind(stack) == <<stack[1]>>

\* self.modifier: the top of the modifier stack
modifier == modifier_stack[Len(modifier_stack)]

skip_rule(m, name) == name \in m.rule_exclude_list

modify_rulename(m, name) ==
  IF m.rulename_prefix = "" THEN name ELSE m.rulename_prefix \o name

(***************************************************************************)
(* RuleInfo(func): the directive accumulator, every directive unset.        *)
(***************************************************************************)
RuleInfo ==
  [name |-> None, threads |-> NoneV, shadow_depth |-> None,
   resources |-> Nothing, priority |-> NoneV, retries |-> NoneV,
   benchmark |-> None, group |-> None, wrapper |-> None,
   env_modules |-> <<>>, conda_env |-> None, container_img |-> None,
   is_containerized |-> FALSE, script |-> None, shellcmd |-> None,
   notebook |-> None, template_engine |-> None, norun |-> FALSE,
   handover |-> FALSE, cache |-> None, default_target |-> "False",
   localrule |-> None, output |-> <<>>]

\* Rule(name, workflow): a fresh Rule object, no directive applied
Rule(id, name) ==
  [id |-> id, name |-> name, resources |-> <<>>, shadow_depth |-> None,
   priority |-> IntV(0), restart_times |-> NoneV, benchmark |-> None,
   group |-> None, conda_env |-> None, env_modules |-> <<>>,
   container_img |-> None, is_containerized |-> FALSE, norun |-> FALSE,
   shellcmd |-> None, script |-> None, notebook |-> None, wrapper |-> None,
   template_engine |-> None, is_handover |-> FALSE, output |-> <<>>,
   ruleinfo |-> Nothing]

(***************************************************************************)
(* Workflow.add_rule                                                        *)
(***************************************************************************)
is_rule(name) == name \in DOMAIN rules

\* the duplicate check with its "not" lost
add_rule_rejects_permitted(name, allow_overwrite) ==
  allow_overwrite /\ is_rule(name)

\* "if not allow_overwrite and is_overwrite: raise CreateRuleException"
add_rule_rejects(name, allow_overwrite) == ~allow_overwrite /\ is_rule(name)

\* "self._rules[rule.name] = rule"
add_rule_rules(name, rule) ==
  [k \in DOMAIN rules \cup {name} |-> IF k = name THEN rule ELSE rules[k]]

\* the counter incremented on every registration
add_rule_count_always(is_overwrite) == rule_count + 1

\* "if not is_overwrite: self.rule_count += 1"
add_rule_count(is_overwrite) ==
  IF ~is_overwrite THEN rule_count + 1 ELSE rule_count

\* "if not self.default_target: self.default_target = rule.name"
add_rule_default_target(name) ==
  IF ~Truthy(default_target) THEN name ELSE default_target

\* "self.modifier.rules.add(rule)"
add_rule_modifier(id) ==
  [modifier_stack EXCEPT ![Len(modifier_stack)].rules = @ \cup {id}]

\* the registry after add_rule(name, allow_overwrite=...), or the exception
add_rule(name, allow_overwrite) ==
  IF add_rule_rejects(name, allow_overwrite)
  THEN [error |-> Raise("CreateRuleException", "name already used"),
        rules |-> rules, rule_count |-> rule_count,
        default_target |-> default_target,
        modifier_stack |-> modifier_stack, next_id |-> next_id]
  ELSE [error |-> NoError,
        rules |-> add_rule_rules(name, Rule(next_id, name)),
        rule_count |-> add_rule_count(is_rule(name)),
        default_target |-> add_rule_default_target(name),
        modifier_stack |-> add_rule_modifier(next_id),
        next_id |-> next_id + 1]

(***************************************************************************)
(* Workflow.rule: registers a Rule and returns the decorate closure.        *)
(***************************************************************************)
\* "if name is None: name = str(len(self._rules) + 1)"
rule_name(name) ==
  IF name = None THEN str(Cardinality(DOMAIN rules) + 1) ELSE name

\* the record of a call: the operation, its name argument, the name chosen
\* for the rule before and after the modifier, the ruleinfo argument, the
\* Rule the call replaced in the registry, and the identity of the call's Rule
NoCall == [op |-> "init", arg |-> None, orig_name |-> None, name |-> None,
           ruleinfo |-> Nothing, replaced |-> Nothing, id |-> 0,
           rulenames |-> <<>>, from_module |-> None, depth |-> 0]

rule(name_arg, max_rules) ==
  /\ error = NoError
  /\ UNCHANGED exec_vars
  /\ UNCHANGED included_stack
  /\ ~IsSet(pending)
  /\ next_id <= max_rules
  /\ LET orig_name == rule_name(name_arg)
         name == modify_rulename(modifier, orig_name)
         r == add_rule(name, modifier.allow_rule_overwrite)
     IN /\ anon_count' = IF name_arg = None THEN anon_count + 1 ELSE anon_count
        /\ IF skip_rule(modifier, orig_name)
           THEN /\ call' = [NoCall EXCEPT !.op = "rule_skipped",
                                          !.arg = name_arg,
                                          !.orig_name = orig_name]
                /\ UNCHANGED <<rules, rule_count, default_target,
                               modifier_stack, pending, error, next_id>>
           ELSE /\ call' = [NoCall EXCEPT
                              !.op = "rule", !.arg = name_arg,
                              !.orig_name = orig_name, !.name = name,
                              !.replaced = IF is_rule(name) THEN Some(rules[name])
                                           ELSE Nothing,
                              !.id = next_id]
                /\ error' = r.error
                /\ rules' = r.rules
                /\ rule_count' = r.rule_count
                /\ default_target' = r.default_target
                /\ modifier_stack' = IF r.error = NoError THEN r.modifier_stack
                                      ELSE unwind(r.modifier_stack)
                /\ next_id' = r.next_id
                /\ pending' = IF r.error = NoError
                              THEN Some([name |-> name, orig_name |-> orig_name])
                              ELSE pending
  /\ UNCHANGED <<localrules, cache_rules, enable_cache, _ruleorder, modules>>

(***************************************************************************)
(* Python predicates and conversions used by decorate.                      *)
(***************************************************************************)
isinstance_int(x) == x.t = "int"
isinstance_float(x) == x.t = "float"
isinstance_str(x) == x.t = "str"
callable(x) == x.t = "callable"

\* truth value of a Python value: None, 0, 0.0 and "" are falsy
TruthyV(x) == x.t = "callable" \/ (x.t # "none" /\ x.v # 0)

\* the float rounded down instead of toward zero
int_of_float_floor(x) == IntV(x.v \div 10)

\* int(x) of a float held in tenths: the fraction is dropped, toward zero
int_of_float(x) ==
  IntV(IF x.v >= 0 THEN x.v \div 10 ELSE -((-x.v) \div 10))

\* dict.update: the keys of new override those of old
dict_update(old, new) ==
  [k \in DOMAIN old \cup DOMAIN new |-> IF k \in DOMAIN new THEN new[k] ELSE old[k]]

(***************************************************************************)
(* decorate(ruleinfo), statement by statement.  A step takes and returns    *)
(* the state decorate works on: s.rules is the registry, s.name the closure *)
(* variable name (the key of the rule being finalized), s.ri the ruleinfo,  *)
(* s.error the exception raised so far.  Once an exception is raised the    *)
(* remaining steps are skipped and what was assigned before it stays.       *)
(***************************************************************************)
SetAttr(s, attr, value) == [s EXCEPT !.rules[s.name][attr] = value]
Fail(s, type, msg) == [s EXCEPT !.error = Raise(type, msg)]

\* RuleInfo.apply_modifier: the directives supplied inline at a use rule
\* statement (modifier.ruleinfo_overwrite) replace those of the ruleinfo
apply_modifier(ri, m) ==
  IF ~IsSet(m.ruleinfo_overwrite) THEN ri
  ELSE LET overwrite == Get(m.ruleinfo_overwrite)
       IN [f \in DOMAIN ri |->
             IF overwrite[f] # RuleInfo[f] THEN overwrite[f] ELSE ri[f]]

\* "ruleinfo.apply_modifier(self.modifier)"
decorate_apply_modifier(s) == [s EXCEPT !.ri = apply_modifier(s.ri, s.modifier)]

\* "if ruleinfo.name: rule.name = ...; del self._rules[name]; ..."
decorate_name(s) ==
  IF ~Truthy(s.ri.name) THEN s
  ELSE LET renamed == [s.rules[s.name] EXCEPT !.name = s.ri.name]
           keys == (DOMAIN s.rules \ {s.name}) \cup {s.ri.name}
       IN [s EXCEPT !.rules = [k \in keys |-> IF k = s.ri.name THEN renamed
                                               ELSE s.rules[k]],
                    !.name = s.ri.name]

\* "rule.resources = copy.deepcopy(self.default_resources.parsed)"
decorate_default_resources(s) ==
  SetAttr(s, "resources", default_resources_parsed)

\* the type check of the threads directive
threads_valid(threads) ==
  isinstance_int(threads) \/ isinstance_float(threads) \/ callable(threads)

\* the value the threads directive stores, with no CLI thread override
threads_value(threads) ==
  IF isinstance_float(threads) THEN int_of_float(threads) ELSE threads

\* "if name in self.overwrite_threads"
has_overwrite_threads(name) == name \in DOMAIN overwrite_threads

decorate_threads(s) ==
  IF s.ri.threads = NoneV THEN s
  ELSE IF ~threads_valid(s.ri.threads)
  THEN Fail(s, "RuleException",
            "Threads value has to be an integer, float, or a callable.")
  ELSE IF has_overwrite_threads(s.name)
  THEN [s EXCEPT !.rules[s.name].resources =
                    dict_update(@, [k \in {"_cores"} |-> overwrite_threads[s.name]])]
  ELSE [s EXCEPT !.ri.threads = threads_value(s.ri.threads),
                 !.rules[s.name].resources =
                    dict_update(@, [k \in {"_cores"} |-> threads_value(s.ri.threads)])]

ShadowDepths == {"True", "shallow", "full", "minimal", "copy-minimal"}

decorate_shadow(s) ==
  IF ~Truthy(s.ri.shadow_depth) THEN s
  ELSE IF s.ri.shadow_depth \notin ShadowDepths
  THEN Fail(s, "RuleException", "Shadow must either be ...")
  ELSE IF s.ri.shadow_depth = "True"
  THEN SetAttr(s, "shadow_depth", "full")
  ELSE SetAttr(s, "shadow_depth", s.ri.shadow_depth)

\* the type check of one value of the resources directive
resource_valid(r) == isinstance_int(r) \/ isinstance_str(r) \/ callable(r)

\* the positional check that lets a single positional argument through
resources_positional_two(args) == Len(args) > 1

\* "if args: raise RuleException"
resources_positional(args) == Len(args) > 0

decorate_resources(s) ==
  IF ~IsSet(s.ri.resources) THEN s
  ELSE LET args == Get(s.ri.resources).args
           resources == Get(s.ri.resources).kw
       IN IF resources_positional(args)
          THEN Fail(s, "RuleException", "Resources have to be named.")
          ELSE IF ~(\A k \in DOMAIN resources : resource_valid(resources[k]))
          THEN Fail(s, "RuleException",
                    "Resources values have to be integers, strings, or callables (functions)")
          ELSE [s EXCEPT !.rules[s.name].resources = dict_update(@, resources)]

\* "if name in self.overwrite_resources: rule.resources.update(...)"
decorate_overwrite_resources(s) ==
  IF s.name \in DOMAIN overwrite_resources
  THEN [s EXCEPT !.rules[s.name].resources =
                    dict_update(@, overwrite_resources[s.name])]
  ELSE s

decorate_priority(s) ==
  IF ~TruthyV(s.ri.priority) THEN s
  ELSE IF ~isinstance_int(s.ri.priority) /\ ~isinstance_float(s.ri.priority)
  THEN Fail(s, "RuleException", "Priority values have to be numeric.")
  ELSE SetAttr(s, "priority", s.ri.priority)

\* the check of a truthy retries directive
retries_valid(retries) == isinstance_int(retries) /\ retries.v >= 0

decorate_retries(s) ==
  IF TruthyV(s.ri.retries) /\ ~retries_valid(s.ri.retries)
  THEN Fail(s, "RuleException", "Retries values have to be integers >= 0")
  ELSE SetAttr(s, "restart_times",
               IF s.ri.retries = NoneV THEN restart_times ELSE s.ri.retries)

\* "if ruleinfo.output: rule.set_output(...)"
decorate_output(s) ==
  IF Len(s.ri.output) > 0 THEN SetAttr(s, "output", s.ri.output) ELSE s

decorate_benchmark(s) ==
  IF Truthy(s.ri.benchmark) THEN SetAttr(s, "benchmark", s.ri.benchmark) ELSE s

\* self.overwrite_groups: no CLI group override
overwrite_groups == [k \in {} |-> None]

decorate_group(s) ==
  IF run_local THEN s
  ELSE LET cli == IF s.name \in DOMAIN overwrite_groups
                  THEN overwrite_groups[s.name] ELSE None
           group == IF Truthy(cli) THEN cli ELSE s.ri.group
       IN IF group # None THEN SetAttr(s, "group", group) ELSE s

\* "rule.conda_env = snakemake.wrapper.get_conda_env(ruleinfo.wrapper, ...)"
decorate_wrapper(s) ==
  IF Truthy(s.ri.wrapper) THEN SetAttr(s, "conda_env", "wrapper-environment")
  ELSE s

\* the test of the execution method with the wrapper left out
invalid_rule_no_wrapper(ri) ==
  ~(Truthy(ri.script) \/ Truthy(ri.shellcmd) \/ Truthy(ri.notebook))

\* "not (ruleinfo.script or ruleinfo.wrapper or ruleinfo.shellcmd or
\*  ruleinfo.notebook)"
invalid_rule(ri) ==
  ~(Truthy(ri.script) \/ Truthy(ri.wrapper) \/ Truthy(ri.shellcmd)
      \/ Truthy(ri.notebook))

decorate_env_modules(s) ==
  IF Len(s.ri.env_modules) = 0 THEN s
  ELSE IF invalid_rule(s.ri)
  THEN Fail(s, "RuleException", "envmodules directive is only allowed with ...")
  ELSE SetAttr(s, "env_modules", s.ri.env_modules)

decorate_conda(s) ==
  IF ~Truthy(s.ri.conda_env) THEN s
  ELSE IF invalid_rule(s.ri)
  THEN Fail(s, "RuleException", "Conda environments are only allowed with ...")
  ELSE SetAttr(s, "conda_env", s.ri.conda_env)

\* truth value of ruleinfo.container_img: None, False and "" are falsy
TruthyImg(img) == Truthy(img) /\ img # "False"

global_is_containerized == FALSE

decorate_container(s) ==
  IF TruthyImg(s.ri.container_img)
  THEN IF invalid_rule(s.ri)
       THEN Fail(s, "RuleException", "Singularity directive is only allowed with ...")
       ELSE SetAttr(SetAttr(s, "container_img", s.ri.container_img),
                    "is_containerized", s.ri.is_containerized)
  ELSE IF Truthy(global_container_img)
             /\ ~invalid_rule(s.ri) /\ s.ri.container_img # "False"
  THEN SetAttr(SetAttr(s, "container_img", global_container_img),
               "is_containerized", global_is_containerized)
  ELSE s

\* "rule.norun = ruleinfo.norun" to "rule.basedir = self.current_basedir"
decorate_attributes(s) ==
  [s EXCEPT !.rules[s.name] =
     [@ EXCEPT !.norun = s.ri.norun,
               !.name = IF s.ri.name # None THEN s.ri.name ELSE @,
               !.shellcmd = s.ri.shellcmd,
               !.script = s.ri.script,
               !.notebook = s.ri.notebook,
               !.wrapper = s.ri.wrapper,
               !.template_engine = s.ri.template_engine]]

\* "{name: val for name, val in self.global_resources.items() if val is not None}"
global_resources_set ==
  [k \in {r \in DOMAIN global_resources : global_resources[r] # NoneV}
     |-> global_resources[k]]

decorate_handover(s) ==
  IF ~s.ri.handover THEN s
  ELSE LET given == IF ~IsSet(s.ri.resources)
                    THEN [s EXCEPT !.rules[s.name].resources =
                                      dict_update(@, global_resources_set)]
                    ELSE s
       IN [given EXCEPT !.localrules = @ \cup {s.rules[s.name].name},
                        !.rules[s.name].is_handover = TRUE]

\* "if ruleinfo.cache is True or "omit-software" or "all"": a non-empty
\* string is true, so the condition holds for every value of the directive
cache_value_accepted(cache) == cache = "True" \/ TRUE \/ TRUE

decorate_cache(s) ==
  IF ~Truthy(s.ri.cache) THEN s
  ELSE LET r == s.rules[s.name]
       IN IF Len(r.output) > 1 /\ ~r.output[1].is_multiext
          THEN Fail(s, "WorkflowError",
                    "Rule is marked for between workflow caching but has multiple output files.")
          ELSE IF ~enable_cache THEN s
          ELSE IF cache_value_accepted(s.ri.cache)
          THEN [s EXCEPT !.cache_rules =
                  dict_update(@, [k \in {r.name} |->
                     IF s.ri.cache = "True" THEN "all" ELSE s.ri.cache])]
          ELSE Fail(s, "WorkflowError", "Invalid value for cache directive.")

\* "self.cache_rules.get(rule.name)"
get_cache_mode(cache, r) ==
  IF r.name \in DOMAIN cache THEN cache[r.name] ELSE None

decorate_benchmark_cache(s) ==
  IF Truthy(s.ri.benchmark)
       /\ Truthy(get_cache_mode(s.cache_rules, s.rules[s.name]))
  THEN Fail(s, "WorkflowError",
            "Rules with a benchmark directive may not be marked as eligible for between-workflow caching")
  ELSE s

decorate_default_target(s) ==
  IF s.ri.default_target = "True"
  THEN [s EXCEPT !.default_target = s.rules[s.name].name]
  ELSE IF s.ri.default_target # "False"
  THEN Fail(s, "WorkflowError", "Invalid argument for 'default_target:' directive.")
  ELSE s

decorate_localrule(s) ==
  IF s.ri.localrule = "True"
  THEN [s EXCEPT !.localrules = @ \cup {s.rules[s.name].name}]
  ELSE s

\* "rule.ruleinfo = ruleinfo"
decorate_ruleinfo(s) == SetAttr(s, "ruleinfo", Some(s.ri))

\* run a step unless an exception was raised before it
Then(s, step(_)) == IF s.error # NoError THEN s ELSE step(s)

\* the statements of decorate, in the order of the source
decorate_body(s0) ==
  LET sm == Then(s0, decorate_apply_modifier)
      s1 == Then(sm, decorate_name)
      s2 == Then(s1, decorate_output)
      s3 == Then(s2, decorate_default_resources)
      s4 == Then(s3, decorate_threads)
      s5 == Then(s4, decorate_shadow)
      s6 == Then(s5, decorate_resources)
      s7 == Then(s6, decorate_overwrite_resources)
      s8 == Then(s7, decorate_priority)
      s9 == Then(s8, decorate_retries)
      s10 == Then(s9, decorate_benchmark)
      s11 == Then(s10, decorate_group)
      s12 == Then(s11, decorate_wrapper)
      s13 == Then(s12, decorate_env_modules)
      s14 == Then(s13, decorate_conda)
      s15 == Then(s14, decorate_container)
      s16 == Then(s15, decorate_attributes)
      s17 == Then(s16, decorate_handover)
      s18 == Then(s17, decorate_cache)
      s19 == Then(s18, decorate_benchmark_cache)
      s20 == Then(s19, decorate_default_target)
      s21 == Then(s20, decorate_localrule)
  IN Then(s21, decorate_ruleinfo)

\* decorate(ruleinfo): the closure of Workflow.rule applied to a RuleInfo
decorate(ruleinfo) ==
  /\ error = NoError
  /\ UNCHANGED exec_vars
  /\ UNCHANGED included_stack
  /\ IsSet(pending)
  /\ LET s0 == [rules |-> rules, name |-> Get(pending).name, ri |-> ruleinfo,
                error |-> NoError, default_target |-> default_target,
                localrules |-> localrules, cache_rules |-> cache_rules,
                modifier |-> modifier]
         s == decorate_body(s0)
     IN /\ rules' = s.rules
        /\ default_target' = s.default_target
        /\ localrules' = s.localrules
        /\ cache_rules' = s.cache_rules
        /\ error' = s.error
        /\ modifier_stack' = IF s.error = NoError THEN modifier_stack
                              ELSE unwind(modifier_stack)
        /\ call' = [NoCall EXCEPT !.op = "decorate",
                                  !.orig_name = Get(pending).orig_name,
                                  !.name = s.name,
                                  !.ruleinfo = Some(ruleinfo),
                                  !.id = rules[Get(pending).name].id]
  /\ pending' = Nothing
  /\ UNCHANGED <<rule_count, enable_cache, next_id, anon_count, _ruleorder,
                 modules>>

(***************************************************************************)
(* ModuleInfo.use_rules: the rules of a module are registered under a       *)
(* modifier that permits overwriting, pushed on entry and popped on exit.   *)
(***************************************************************************)
\* the modules used: one renames its rules, one excludes rule "a"
Modules == {Modifier(TRUE, "m_", {}), Modifier(TRUE, "", {"a"})}

use_rules_enter(m) ==
  /\ error = NoError
  /\ UNCHANGED exec_vars
  /\ UNCHANGED included_stack
  /\ ~IsSet(pending)
  /\ Len(modifier_stack) < MaxModifiers
  /\ modifier_stack' = Append(modifier_stack, m)
  /\ call' = [NoCall EXCEPT !.op = "use_rules_enter"]
  /\ UNCHANGED <<rules, rule_count, default_target, localrules, cache_rules,
                 enable_cache, pending, error, next_id, anon_count,
                 _ruleorder, modules>>

use_rules_exit ==
  /\ error = NoError
  /\ UNCHANGED exec_vars
  /\ UNCHANGED included_stack
  /\ ~IsSet(pending)
  /\ Len(modifier_stack) > 1
  /\ modifier_stack' = SubSeq(modifier_stack, 1, Len(modifier_stack) - 1)
  /\ call' = [NoCall EXCEPT !.op = "use_rules_exit"]
  /\ UNCHANGED <<rules, rule_count, default_target, localrules, cache_rules,
                 enable_cache, pending, error, next_id, anon_count,
                 _ruleorder, modules>>

(***************************************************************************)
(* Workflow.__init__                                                        *)
(***************************************************************************)
Init ==
  /\ rules = <<>>
  /\ rule_count = 0
  /\ default_target = None
  /\ modifier_stack = <<Modifier(FALSE, "", {})>>
  /\ localrules = {}
  /\ cache_rules = <<>>
  /\ enable_cache = FALSE
  /\ pending = Nothing
  /\ error = NoError
  /\ next_id = 1
  /\ anon_count = 0
  /\ _ruleorder = <<>>
  /\ modules = {}
  /\ call = NoCall
  /\ included_stack = <<>>
  /\ NotExecuting

(***************************************************************************)
(* The registry specification: rules are registered, renamed and finalized  *)
(* at the top level and inside module scopes.                               *)
(***************************************************************************)
RuleNames == {None, "a", "2"}

Renames == {None, "", "a"}

RegistryRuleInfos ==
  {[RuleInfo EXCEPT !.name = n, !.threads = t] :
     n \in Renames, t \in {NoneV, StrV(1)}}

Register == \E n \in RuleNames : rule(n, MaxRules)

Finalize == \E ri \in RegistryRuleInfos : decorate(ri)

UseRulesEnter == \E m \in Modules : use_rules_enter(m)

UseRulesExit == use_rules_exit

Next == Register \/ Finalize \/ UseRulesEnter \/ UseRulesExit

Spec == Init /\ [][Next]_vars

(***************************************************************************)
(* The directive specification: rules "a" (CLI thread override), "b" (CLI   *)
(* resource overrides) and "c" (no override) are finalized with every       *)
(* combination of threads, resources and handover directives.               *)
(***************************************************************************)
DirectiveNames == {"a", "b", "c"}

ThreadsValues == {NoneV, IntV(2), FloatV(39), FloatV(-39), FuncV(1), StrV(1)}

ResourceMaps ==
  {[k \in ks |-> IF k = "_cores" THEN IntV(5) ELSE m] :
     ks \in SUBSET {"_cores", "mem"},
     m \in {IntV(100), StrV(1), FuncV(1), FloatV(15)}}

ResourcesValues ==
  {Nothing} \cup {Some([args |-> a, kw |-> kw]) :
                    a \in {<<>>, <<StrV(1)>>}, kw \in ResourceMaps}

DirectiveRuleInfos ==
  {[RuleInfo EXCEPT !.threads = t, !.resources = r, !.handover = h] :
     t \in ThreadsValues, r \in ResourcesValues, h \in BOOLEAN}

RegisterD == \E n \in DirectiveNames : rule(n, MaxResRules)

FinalizeD == \E ri \in DirectiveRuleInfos : decorate(ri)

NextD == RegisterD \/ FinalizeD

SpecD == Init /\ [][NextD]_vars

(***************************************************************************)
(* The environment specification: one rule "e" is finalized with every      *)
(* execution method and every combination of conda, container, envmodules,  *)
(* cache, benchmark and output directives, with caching disabled, enabled   *)
(* with no rule named, and enabled for rule "e" (the cache argument of      *)
(* Workflow.__init__).                                                      *)
(***************************************************************************)
\* number of Workflow.rule calls in a run of the environment specification
MaxEnvRules == 1

\* the cache argument of the constructor: None or a list of rule names
CacheArgs == {Nothing, Some({}), Some({"e"})}

\* "self.enable_cache = False; if cache is not None: ..."
InitE ==
  /\ rules = <<>>
  /\ rule_count = 0
  /\ default_target = None
  /\ modifier_stack = <<Modifier(FALSE, "", {})>>
  /\ localrules = {}
  /\ \E cache \in CacheArgs :
        /\ enable_cache = IsSet(cache)
        /\ cache_rules = IF IsSet(cache) THEN [k \in Get(cache) |-> "all"]
                         ELSE <<>>
  /\ pending = Nothing
  /\ error = NoError
  /\ next_id = 1
  /\ anon_count = 0
  /\ _ruleorder = <<>>
  /\ modules = {}
  /\ call = NoCall
  /\ included_stack = <<>>
  /\ NotExecuting

\* the directive that gives a rule its execution method: shell, script,
\* notebook, wrapper, run (an inline function), template_engine, or norun
ExecMethods ==
  {"shell", "script", "notebook", "wrapper", "run", "template_engine", "norun"}

\* the RuleInfo after the directive of the execution method was applied
WithMethod(ri, method) ==
  [ri EXCEPT !.shellcmd = IF method = "shell" THEN "cmd" ELSE None,
             !.script = IF method = "script" THEN "s.py" ELSE None,
             !.notebook = IF method = "notebook" THEN "n.ipynb" ELSE None,
             !.wrapper = IF method = "wrapper" THEN "w" ELSE None,
             !.template_engine = IF method = "template_engine" THEN "jinja2"
                                 ELSE None,
             !.norun = (method = "norun")]

\* one output file: whether it was declared through multiext()
OutFile(is_multiext) == [is_multiext |-> is_multiext]

\* the output files of the rule after rule.set_output
OutputValues ==
  {<<>>, <<OutFile(FALSE)>>, <<OutFile(FALSE), OutFile(FALSE)>>,
   <<OutFile(TRUE), OutFile(TRUE)>>}

CacheValues == {None, "True", "omit-software", "bogus"}

EnvRuleInfos ==
  {[WithMethod(RuleInfo, m) EXCEPT !.conda_env = c, !.container_img = i,
                                   !.env_modules = e, !.cache = k,
                                   !.benchmark = b, !.output = o] :
     m \in ExecMethods, c \in {None, "env.yaml"}, i \in {None, "img"},
     e \in {<<>>, <<"mod">>}, k \in CacheValues, b \in {None, "bench.txt"},
     o \in OutputValues}

RegisterE == rule("e", MaxEnvRules)

FinalizeE == \E ri \in EnvRuleInfos : decorate(ri)

NextE == RegisterE \/ FinalizeE

SpecE == InitE /\ [][NextE]_vars

(***************************************************************************)
(* Workflow.ruleorder and Workflow.check.                                   *)
(***************************************************************************)
\* number of Workflow.rule calls in a run of the ruleorder specification
MaxOrderRules == 2
\* number of ruleorder clauses
MaxClauses == 2

\* Ruleorder.add: the clause is appended to the list of clauses
Ruleorder_add(order, clause) == Append(order, clause)

\* "self._ruleorder.add(*map(self.modifier.modify_rulename, rulenames))"
ruleorder(rulenames) ==
  /\ error = NoError
  /\ UNCHANGED exec_vars
  /\ UNCHANGED included_stack
  /\ ~IsSet(pending)
  /\ Len(_ruleorder) < MaxClauses
  /\ _ruleorder' =
       Ruleorder_add(_ruleorder,
                     [i \in DOMAIN rulenames |->
                        modify_rulename(modifier, rulenames[i])])
  /\ call' = [NoCall EXCEPT !.op = "ruleorder"]
  /\ UNCHANGED <<rules, rule_count, default_target, modifier_stack, localrules,
                 cache_rules, enable_cache, pending, error, next_id,
                 anon_count, modules>>

\* the names looked at by a check that stops after the first clause
check_unknown_first_clause ==
  {p \in {1} \X (1..2) :
     /\ p[1] \in DOMAIN _ruleorder
     /\ p[2] \in DOMAIN _ruleorder[p[1]]
     /\ ~is_rule(_ruleorder[p[1]][p[2]])}

\* the positions <<clause, name>> of the names for which is_rule is false
check_unknown ==
  {p \in (DOMAIN _ruleorder) \X (1..2) :
     /\ p[2] \in DOMAIN _ruleorder[p[1]]
     /\ ~is_rule(_ruleorder[p[1]][p[2]])}

\* the first such position in the order of the two loops
check_first(unknown) ==
  CHOOSE p \in unknown :
    \A q \in unknown : p[1] < q[1] \/ (p[1] = q[1] /\ p[2] <= q[2])

\* Workflow.check: raises UnknownRuleException for the first unknown name
check ==
  /\ error = NoError
  /\ UNCHANGED exec_vars
  /\ UNCHANGED included_stack
  /\ ~IsSet(pending)
  /\ error' = IF check_unknown = {} THEN NoError
              ELSE LET p == check_first(check_unknown)
                   IN Raise("UnknownRuleException", _ruleorder[p[1]][p[2]])
  /\ modifier_stack' = IF check_unknown = {} THEN modifier_stack
                        ELSE unwind(modifier_stack)
  /\ call' = [NoCall EXCEPT !.op = "check"]
  /\ UNCHANGED <<rules, rule_count, default_target, localrules, cache_rules,
                 enable_cache, pending, next_id, anon_count, _ruleorder,
                 modules>>

\* the clauses declared: two names each
Clauses == {<<"a", "b">>, <<"b", "a">>}

OrderRuleInfos == {RuleInfo, [RuleInfo EXCEPT !.name = "b"]}

RegisterO == \E n \in {"a", "b"} : rule(n, MaxOrderRules)

FinalizeO == \E ri \in OrderRuleInfos : decorate(ri)

RuleorderO == \E c \in Clauses : ruleorder(c)

CheckO == check

UseRulesEnterO == use_rules_enter(Modifier(TRUE, "m_", {}))

UseRulesExitO == use_rules_exit

NextO ==
  RegisterO \/ FinalizeO \/ RuleorderO \/ CheckO \/ UseRulesEnterO
    \/ UseRulesExitO

SpecO == Init /\ [][NextO]_vars

(***************************************************************************)
(* Workflow.module and Workflow.userule.                                    *)
(***************************************************************************)
\* number of Rule objects created in a run of the use rule specification
MaxUseRules == 2

\* "self.modules[name] = ModuleInfo(...)"
module(name) ==
  /\ error = NoError
  /\ UNCHANGED exec_vars
  /\ UNCHANGED included_stack
  /\ ~IsSet(pending)
  /\ modules' = modules \cup {name}
  /\ call' = [NoCall EXCEPT !.op = "module", !.from_module = name]
  /\ UNCHANGED <<rules, rule_count, default_target, modifier_stack, localrules,
                 cache_rules, enable_cache, pending, error, next_id,
                 anon_count, _ruleorder>>

\* get_name_modifier_func: "m_*" puts the prefix "m_" before every rule name
name_modifier_prefix(name_modifier) ==
  IF name_modifier = "m_*" THEN "m_" ELSE ""

\* userule with from_module: "module = self.modules[from_module]" and
\* module.use_rules(rules, name_modifier, exclude_rules=...)
userule_from_module(from_module, exclude_rules, name_modifier) ==
  IF from_module \notin modules
  THEN /\ error' = Raise("WorkflowError",
                         "Module has not been registered with 'module' statement")
       /\ modifier_stack' = unwind(modifier_stack)
       /\ call' = [NoCall EXCEPT !.op = "userule", !.from_module = from_module,
                                 !.depth = Len(modifier_stack)]
       /\ UNCHANGED <<rules, rule_count, default_target, localrules,
                      cache_rules, enable_cache, pending, next_id, anon_count,
                      _ruleorder, modules>>
  ELSE use_rules_enter(Modifier(TRUE, name_modifier_prefix(name_modifier),
                                exclude_rules))

\* the length test that lets two rule names through
userule_too_many_three(rulenames) == Len(rulenames) > 2

\* "if len(rules) > 1: raise WorkflowError"
userule_too_many(rulenames) == Len(rulenames) > 1

\* WorkflowModifier(self, parent_modifier=self.modifier, rulename_modifier=...,
\* ruleinfo_overwrite=ruleinfo): the scope of one local use rule statement
child_modifier(parent, ruleinfo) ==
  [parent EXCEPT !.ruleinfo_overwrite = ruleinfo, !.rules = {}]

\* the "with" block left without popping the modifier
with_exit_kept(stack) == stack

\* leaving the "with WorkflowModifier(...)" block: the modifier is popped
with_exit(stack) == SubSeq(stack, 1, Len(stack) - 1)

\* what a call that changes nothing returns
userule_unchanged ==
  [error |-> NoError, rules |-> rules, rule_count |-> rule_count,
   default_target |-> default_target, localrules |-> localrules,
   cache_rules |-> cache_rules, next_id |-> next_id,
   modifier_stack |-> modifier_stack, name |-> None, ruleinfo |-> Nothing,
   depth |-> Len(modifier_stack)]

\* the "with" block of the local form: copy.copy(orig_rule.ruleinfo), then
\* self.rule(name=name_modifier)(orig_ruleinfo) under the pushed modifier
userule_with(orig_rule, name_modifier, ruleinfo) ==
  LET child == child_modifier(modifier, ruleinfo)
      pushed == Append(modifier_stack, child)
      orig_ruleinfo == Get(orig_rule.ruleinfo)
      name == modify_rulename(child, name_modifier)
      r == add_rule(name, child.allow_rule_overwrite)
      added == [pushed EXCEPT ![Len(pushed)].rules = @ \cup {next_id}]
      s == decorate_body([rules |-> r.rules, name |-> name,
                          ri |-> orig_ruleinfo, error |-> NoError,
                          default_target |-> r.default_target,
                          localrules |-> localrules,
                          cache_rules |-> cache_rules, modifier |-> child])
  IN IF r.error # NoError
     THEN [userule_unchanged EXCEPT
             !.error = r.error, !.name = name,
             !.modifier_stack = unwind(with_exit(pushed)),
             !.ruleinfo = Some(orig_ruleinfo), !.depth = Len(pushed)]
     ELSE [error |-> s.error, rules |-> s.rules, rule_count |-> r.rule_count,
           default_target |-> s.default_target, localrules |-> s.localrules,
           cache_rules |-> s.cache_rules, next_id |-> r.next_id,
           modifier_stack |-> IF s.error = NoError THEN with_exit(added)
                              ELSE unwind(with_exit(added)),
           name |-> s.name, ruleinfo |-> Some(orig_ruleinfo),
           depth |-> Len(pushed)]

\* userule without from_module: local inheritance
userule_local(rulenames, name_modifier, maybe_ruleinfo) ==
  IF skip_rule(modifier, name_modifier)
  THEN [userule_unchanged EXCEPT !.name = "skipped"]
  ELSE IF userule_too_many(rulenames)
  THEN [userule_unchanged EXCEPT
          !.error = Raise("WorkflowError",
                          "'use rule' statement from rule in the same module must declare a single rule"),
          !.modifier_stack = unwind(modifier_stack)]
  ELSE IF ~is_rule(modify_rulename(modifier, rulenames[1]))
  THEN [userule_unchanged EXCEPT
          !.error = Raise("KeyError", modify_rulename(modifier, rulenames[1])),
          !.modifier_stack = unwind(modifier_stack)]
  ELSE userule_with(rules[modify_rulename(modifier, rulenames[1])],
                    name_modifier, maybe_ruleinfo)

\* Workflow.userule(rules, from_module, exclude_rules, name_modifier)
\* applied to maybe_ruleinfo (Nothing: the statement has no "with:" part)
userule(rulenames, from_module, exclude_rules, name_modifier, maybe_ruleinfo) ==
  /\ error = NoError
  /\ UNCHANGED exec_vars
  /\ UNCHANGED included_stack
  /\ ~IsSet(pending)
  /\ IF from_module # None
     THEN userule_from_module(from_module, exclude_rules, name_modifier)
     ELSE /\ next_id <= MaxUseRules
          /\ LET u == userule_local(rulenames, name_modifier, maybe_ruleinfo)
             IN /\ error' = u.error
                /\ rules' = u.rules
                /\ rule_count' = u.rule_count
                /\ default_target' = u.default_target
                /\ localrules' = u.localrules
                /\ cache_rules' = u.cache_rules
                /\ next_id' = u.next_id
                /\ modifier_stack' = u.modifier_stack
                /\ call' = [NoCall EXCEPT
                              !.op = IF u.name = "skipped" THEN "userule_skipped"
                                     ELSE "userule",
                              !.arg = name_modifier,
                              !.orig_name = modify_rulename(modifier, rulenames[1]),
                              !.name = u.name,
                              !.ruleinfo = u.ruleinfo,
                              !.id = next_id,
                              !.rulenames = rulenames,
                              !.depth = u.depth]
          /\ UNCHANGED <<enable_cache, pending, anon_count, _ruleorder, modules>>

(***************************************************************************)
(* The use rule specification: rule "a" is registered and finalized, at the *)
(* top level or inside the scope of a module, and inherited locally as "b". *)
(***************************************************************************)
UseRuleInfos ==
  {[RuleInfo EXCEPT !.name = n, !.threads = t] :
     n \in {None, "a"}, t \in {NoneV, IntV(2)}}

\* the "with:" part of a local use rule statement
UseRuleOverrides ==
  {Nothing, Some([RuleInfo EXCEPT !.threads = IntV(3)]),
   Some([RuleInfo EXCEPT !.threads = StrV(1)])}

\* name_modifier and exclude_rules of "use rule * from m ..."
UseRuleScopes ==
  {[name_modifier |-> "m_*", exclude_rules |-> {}],
   [name_modifier |-> None, exclude_rules |-> {"b"}]}

RegisterU == rule("a", MaxUseRules)

FinalizeU == \E ri \in UseRuleInfos : decorate(ri)

ModuleU == module("m")

UseRuleModuleU ==
  \E from_module \in {"m", "x"}, sc \in UseRuleScopes :
     userule(<<"*">>, from_module, sc.exclude_rules, sc.name_modifier, Nothing)

UseRuleLocalU ==
  \E rulenames \in {<<"a">>, <<"a", "c">>}, ri \in UseRuleOverrides :
     userule(rulenames, None, {}, "b", ri)

UseRulesExitU == use_rules_exit

NextU ==
  RegisterU \/ FinalizeU \/ ModuleU \/ UseRuleModuleU \/ UseRuleLocalU
    \/ UseRulesExitU

SpecU == Init /\ [][NextU]_vars

(***************************************************************************)
(* Workflow.execute, statement by statement.  pc is the statement to run    *)
(* next, trace the calls made on the collaborators (persistence, dag,       *)
(* subsnakemake, scheduler, hooks) in the order made, arguments the          *)
(* arguments of the call and the answers of the collaborators read so far.  *)
(* An argument that is read once is chosen where it is read.                *)
(***************************************************************************)
\* number of registered subworkflows
MaxSubworkflows == 2
\* number of files given to cleanup_metadata
MaxMetadataFiles == 2

\* the statement was reached: go on with the statement at label
Goto(label) == pc' = label /\ result' = result

\* "return value"
Return(value) == pc' = "returned" /\ result' = value

\* an exception leaves execute
Raised == pc' = "returned" /\ result' = "raised"

\* the calls made by the step
Calls(events) == trace' = trace \o events

\* an argument or an answer is read for the first time
Read(name, value) == arguments' = arguments @@ (name :> value)

\* a step of execute at the statement label
At(label) == pc = label /\ UNCHANGED definition_vars

\* lines 739-740: "map(self._rules.__getitem__, filter(self.is_rule, items))"
execute_rules(items) == {rules[i] : i \in {i \in items : is_rule(i)}}

\* lines 749-753: a relative path is rewritten relative to the working
\* directory, an absolute one is kept
target_relpath(f) == IF f = "./f" THEN "f" ELSE f

\* lines 742-754: "filterfalse(self.is_rule, items)", each item made
\* relative unless keep_target_files
execute_files(items, keep_target_files) ==
  {IF keep_target_files THEN i ELSE target_relpath(i) :
     i \in {i \in items : ~is_rule(i)}}

\* Rule.has_wildcards: some output file of the rule has a wildcard
has_wildcards(r) ==
  \E i \in DOMAIN r.output :
     "wildcards" \in DOMAIN r.output[i] /\ r.output[i].wildcards

\* lines 757-760: without targets and target jobs the default target, when
\* there is one, is the target list
execute_targets(targets, target_jobs) ==
  IF targets = {} /\ ~target_jobs
  THEN IF default_target # None THEN {default_target} ELSE {}
  ELSE targets

\* lines 771-787: the rule targets and the file targets
execute_targetrules(a) ==
  execute_rules(execute_targets(a["targets"], a["target_jobs"]))
    \cup {r \in execute_rules(a["prioritytargets"]) : ~has_wildcards(r)}
    \cup {r \in execute_rules(a["forcerun"]) : ~has_wildcards(r)}
    \cup {r \in execute_rules(a["until"]) : ~has_wildcards(r)}

execute_targetfiles(a) ==
  execute_files(execute_targets(a["targets"], a["target_jobs"]),
                a["keep_target_files"])
    \cup execute_files(a["prioritytargets"], a["keep_target_files"])
    \cup execute_files(a["forcerun"], a["keep_target_files"])
    \cup execute_files(a["until"], a["keep_target_files"])

\* the start of execute with a default target that is no rule dropped from
\* the workflow, where the code only reads it
execute_start_drops_default_target ==
  /\ pc = "start"
  /\ default_target' = IF is_rule(default_target) THEN default_target ELSE None
  /\ UNCHANGED <<rules, rule_count, modifier_stack, localrules, cache_rules,
                 enable_cache, pending, error, next_id, anon_count,
                 _ruleorder, modules, call, included_stack>>
  /\ UNCHANGED nested_vars
  /\ Calls(<<"check_localrules", "resolve_targets">>)
  /\ targetrules' = execute_targetrules(arguments)
  /\ targetfiles' = execute_targetfiles(arguments)
  /\ Goto("wait_for_files")
  /\ UNCHANGED arguments

\* lines 737-808: check_localrules warns only; the targets are resolved
execute_start ==
  /\ At("start")
  /\ UNCHANGED nested_vars
  /\ Calls(<<"check_localrules", "resolve_targets">>)
  /\ targetrules' = execute_targetrules(arguments)
  /\ targetfiles' = execute_targetfiles(arguments)
  /\ Goto("wait_for_files")
  /\ UNCHANGED arguments

\* lines 801-808: "if wait_for_files is not None: ... except IOError: return False"
execute_wait_for_files ==
  /\ At("wait_for_files")
  /\ UNCHANGED nested_vars
  /\ UNCHANGED target_vars
  /\ \E wait_for_files \in {"None", "found", "IOError"} :
        /\ Read("wait_for_files", wait_for_files)
        /\ IF wait_for_files = "None"
           THEN Calls(<<>>) /\ Goto("DAG")
           ELSE /\ Calls(<<"wait_for_files">>)
                /\ IF wait_for_files = "IOError" THEN Return("False")
                   ELSE Goto("DAG")

\* lines 810-862: DAG(...), Persistence(...), and the persistence cache
\* deactivated in the subprocess and cluster modes
execute_DAG ==
  /\ At("DAG")
  /\ UNCHANGED nested_vars
  /\ UNCHANGED target_vars
  /\ Calls(<<"DAG", "Persistence">>
             \o IF arguments["mode"] # "default"
                THEN <<"persistence.deactivate_cache">> ELSE <<>>)
  /\ Goto("cleanup_metadata")
  /\ UNCHANGED arguments

\* the loop stopped at the first file whose cleanup fails
cleanup_metadata_calls_until_failure(files) ==
  LET failures == {i \in DOMAIN files : ~files[i]}
      last == IF failures = {} THEN Len(files)
              ELSE CHOOSE i \in failures : \A j \in failures : i <= j
  IN [i \in 1..last |-> "persistence.cleanup_metadata"]

\* the calls of the loop over the files of cleanup_metadata
cleanup_metadata_calls(files) ==
  [i \in DOMAIN files |-> "persistence.cleanup_metadata"]

\* lines 865-869: the local "failed", the files whose cleanup was not a
\* success, in the order of the loop; the warning of lines 870-876 lists them
cleanup_metadata_failed(files) ==
  LET not_success(i) == ~files[i]
  IN SelectSeq([i \in DOMAIN files |-> i], not_success)

\* lines 864-877: cleanup_metadata is a list of files, each cleaned up with
\* success or not; "return True" when the list is not empty
execute_cleanup_metadata ==
  /\ At("cleanup_metadata")
  /\ UNCHANGED nested_vars
  /\ UNCHANGED target_vars
  /\ \E n \in 0..MaxMetadataFiles : \E files \in [1..n -> BOOLEAN] :
        /\ arguments' = arguments @@ ("cleanup_metadata" :> files)
                          @@ ("failed" :> cleanup_metadata_failed(files))
        /\ Calls(cleanup_metadata_calls(files))
        /\ IF n > 0 THEN Return("True") ELSE Goto("unlock")

\* the answers of persistence.cleanup_locks() to "if unlock:": it removes the
\* locks held, finds none to remove, or raises IOError
UnlockRequests == {"True", "nothing locked", "IOError"}

\* lines 879-889 with the "except IOError" clause left out
execute_unlock_raises ==
  /\ At("unlock")
  /\ UNCHANGED nested_vars
  /\ UNCHANGED target_vars
  /\ \E unlock \in {"False"} \cup UnlockRequests :
        /\ Read("unlock", unlock)
        /\ IF unlock = "False" THEN Calls(<<>>) /\ Goto("dag.init")
           ELSE /\ Calls(<<"persistence.cleanup_locks">>)
                /\ IF unlock = "IOError" THEN Raised ELSE Return("True")

\* lines 879-889: "if unlock: try: self.persistence.cleanup_locks()"
execute_unlock ==
  /\ At("unlock")
  /\ UNCHANGED nested_vars
  /\ UNCHANGED target_vars
  /\ \E unlock \in {"False"} \cup UnlockRequests :
        /\ Read("unlock", unlock)
        /\ IF unlock = "False" THEN Calls(<<>>) /\ Goto("dag.init")
           ELSE /\ Calls(<<"persistence.cleanup_locks">>)
                /\ Return(IF unlock = "IOError" THEN "False" ELSE "True")

\* lines 891-894: dag.init(), dag.update_checkpoint_dependencies(),
\* dag.check_dynamic(); building the graph may raise
execute_dag_init ==
  /\ At("dag.init")
  /\ UNCHANGED nested_vars
  /\ UNCHANGED target_vars
  /\ \E built \in BOOLEAN :
        /\ Read("dag.init", built)
        /\ IF built
           THEN /\ Calls(<<"dag.init", "dag.update_checkpoint_dependencies",
                           "dag.check_dynamic">>)
                /\ Goto("lock")
           ELSE Calls(<<"dag.init">>) /\ Raised

\* the statement of line 896 left out
execute_lock_skipped ==
  /\ At("lock")
  /\ UNCHANGED nested_vars
  /\ UNCHANGED target_vars
  /\ Read("lock", TRUE)
  /\ Calls(<<>>)
  /\ Goto("cleanup_shadow")

\* line 896: self.persistence.lock(), which raises if the directory is locked
execute_lock ==
  /\ At("lock")
  /\ UNCHANGED nested_vars
  /\ UNCHANGED target_vars
  /\ \E locked \in BOOLEAN :
        /\ Read("lock", locked)
        /\ Calls(<<"persistence.lock">>)
        /\ IF locked THEN Goto("cleanup_shadow") ELSE Raised

\* lines 898-900 with the "return True" left out
execute_cleanup_shadow_continues ==
  /\ At("cleanup_shadow")
  /\ UNCHANGED nested_vars
  /\ UNCHANGED target_vars
  /\ \E cleanup_shadow \in BOOLEAN :
        /\ Read("cleanup_shadow", cleanup_shadow)
        /\ Calls(IF cleanup_shadow THEN <<"persistence.cleanup_shadow">>
                 ELSE <<>>)
        /\ Goto("containerize")

\* lines 898-900
execute_cleanup_shadow ==
  /\ At("cleanup_shadow")
  /\ UNCHANGED nested_vars
  /\ UNCHANGED target_vars
  /\ \E cleanup_shadow \in BOOLEAN :
        /\ Read("cleanup_shadow", cleanup_shadow)
        /\ IF cleanup_shadow
           THEN Calls(<<"persistence.cleanup_shadow">>) /\ Return("True")
           ELSE Calls(<<>>) /\ Goto("containerize")

\* lines 902-906
execute_containerize ==
  /\ At("containerize")
  /\ UNCHANGED nested_vars
  /\ UNCHANGED target_vars
  /\ \E containerize \in BOOLEAN :
        /\ Read("containerize", containerize)
        /\ IF containerize
           THEN Calls(<<"containerize">>) /\ Return("True")
           ELSE Calls(<<>>) /\ Goto("subworkflows")

\* a path: the directory it lies under (0 when the path is relative) and
\* its name below that directory
Path(workdir, name) == [workdir |-> workdir, name |-> name]

\* os.path.isabs
isabs(path) == path.workdir # 0

\* lines 2160-2167: Subworkflow.target of one path; a subworkflow is known
\* by its working directory
Subworkflow_target(subworkflow, path) ==
  IF isabs(path) THEN path ELSE Path(subworkflow, path.name)

\* lines 2170-2174: relpath, local to Subworkflow.targets
relpath(subworkflow, f) ==
  IF f.workdir = subworkflow THEN Path(0, f.name) ELSE f

\* lines 2169-2181 without the condition "job.subworkflow_input[f] is self"
Subworkflow_targets_of_any(subworkflow, subworkflow_input) ==
  {relpath(subworkflow, f) : f \in DOMAIN subworkflow_input}

\* lines 2169-2181: Subworkflow.targets(dag), subworkflow_input being the
\* subworkflow_input of the jobs of the graph: file -> subworkflow
Subworkflow_targets(subworkflow, subworkflow_input) ==
  {relpath(subworkflow, f) :
     f \in {g \in DOMAIN subworkflow_input : subworkflow_input[g] = subworkflow}}

\* the subworkflow inputs of a graph over n subworkflows: one file is or is
\* not requested from each
SubworkflowInputs(n) ==
  {[f \in {Path(i, "f") : i \in requested} |-> f.workdir] :
     requested \in SUBSET (1..n)}

\* what a nested run does: whether it succeeds, the files it appends to
\* updated_files, and whether its Snakefile binds a name of its own
NestedRuns ==
  {[success |-> FALSE, updated |-> {}, defines |-> TRUE],
   [success |-> TRUE, updated |-> {}, defines |-> FALSE],
   [success |-> TRUE, updated |-> {Path(0, "out")}, defines |-> TRUE]}

\* the namespace after a nested run: its Workflow.__init__ (line 247) binds
\* "workflow" in the namespace of the module, which the parent shares, and
\* its Snakefile is executed in that namespace (line 1382)
subsnakemake_globals(namespace, run) ==
  dict_update(namespace,
              [k \in {"workflow"} \cup (IF run.defines THEN {"nested"} ELSE {})
                 |-> "nested"])

\* lines 908-916: the condition of the subworkflow phase and the backup of
\* the globals
execute_subworkflows ==
  /\ At("subworkflows")
  /\ UNCHANGED target_vars
  /\ \E execute_subworkflows \in BOOLEAN,
        subworkflow_input \in SubworkflowInputs(arguments["subworkflows"]) :
        /\ arguments' = arguments
                          @@ ("execute_subworkflows" :> execute_subworkflows)
                          @@ ("subworkflow_input" :> subworkflow_input)
        /\ UNCHANGED <<globals, updated_subworkflow_files, subsnakemake_calls>>
        /\ IF /\ arguments["subworkflows"] > 0
              /\ execute_subworkflows
              /\ ~arguments["printdag"]
              /\ ~arguments["printrulegraph"]
              /\ ~arguments["printfilegraph"]
           THEN /\ Calls(<<"globals_backup">>)
                /\ globals_backup' = globals
                /\ Goto("subworkflow")
           ELSE /\ Calls(<<>>)
                /\ UNCHANGED globals_backup
                /\ Goto("dag.postprocess")

\* the number of subworkflows the loop has gone through
subworkflows_done ==
  Cardinality({i \in DOMAIN trace : trace[i] = "subworkflow.targets"})

\* lines 943-945: the files the nested run updated, as paths of the parent
subworkflow_updated(subworkflow, updated) ==
  {Subworkflow_target(subworkflow, f) : f \in updated}

\* lines 918-952 with the "return False" of line 941 left out: the loop goes
\* on after a nested run that failed
execute_subworkflow_keeps_going ==
  /\ At("subworkflow")
  /\ UNCHANGED target_vars
  /\ UNCHANGED arguments
  /\ IF subworkflows_done = arguments["subworkflows"]
     THEN /\ Calls(<<"globals.update">>)
          /\ globals' = dict_update(globals, globals_backup)
          /\ UNCHANGED <<globals_backup, updated_subworkflow_files,
                         subsnakemake_calls>>
          /\ Goto("dag.postprocess")
     ELSE LET subworkflow == subworkflows_done + 1
              subworkflow_targets ==
                Subworkflow_targets(subworkflow, arguments["subworkflow_input"])
          IN IF subworkflow_targets = {}
             THEN /\ Calls(<<"subworkflow.targets">>)
                  /\ UNCHANGED nested_vars
                  /\ Goto("subworkflow")
             ELSE \E run \in NestedRuns :
                    /\ globals' = subsnakemake_globals(globals, run)
                    /\ subsnakemake_calls' =
                         Append(subsnakemake_calls,
                                [workdir |-> subworkflow,
                                 targets |-> subworkflow_targets,
                                 updated |-> run.updated,
                                 success |-> run.success])
                    /\ UNCHANGED globals_backup
                    /\ IF ~run.success
                       THEN /\ Calls(<<"subworkflow.targets", "subsnakemake">>)
                            /\ UNCHANGED updated_subworkflow_files
                            /\ Goto("subworkflow")
                       ELSE /\ Calls(<<"subworkflow.targets", "subsnakemake",
                                       "dag.updated_subworkflow_files.update">>)
                            /\ updated_subworkflow_files' =
                                 updated_subworkflow_files
                                   \cup subworkflow_updated(subworkflow, run.updated)
                            /\ Goto("subworkflow")

\* lines 918-952: one round of the loop over the subworkflows, or its end
\* with "self.globals.update(globals_backup)"
execute_subworkflow ==
  /\ At("subworkflow")
  /\ UNCHANGED target_vars
  /\ UNCHANGED arguments
  /\ IF subworkflows_done = arguments["subworkflows"]
     THEN /\ Calls(<<"globals.update">>)
          /\ globals' = dict_update(globals, globals_backup)
          /\ UNCHANGED <<globals_backup, updated_subworkflow_files,
                         subsnakemake_calls>>
          /\ Goto("dag.postprocess")
     ELSE LET subworkflow == subworkflows_done + 1
              subworkflow_targets ==
                Subworkflow_targets(subworkflow, arguments["subworkflow_input"])
          IN IF subworkflow_targets = {}
             THEN /\ Calls(<<"subworkflow.targets">>)
                  /\ UNCHANGED nested_vars
                  /\ Goto("subworkflow")
             ELSE \E run \in NestedRuns :
                    /\ globals' = subsnakemake_globals(globals, run)
                    /\ subsnakemake_calls' =
                         Append(subsnakemake_calls,
                                [workdir |-> subworkflow,
                                 targets |-> subworkflow_targets,
                                 updated |-> run.updated,
                                 success |-> run.success])
                    /\ UNCHANGED globals_backup
                    /\ IF ~run.success
                       THEN /\ Calls(<<"subworkflow.targets", "subsnakemake">>)
                            /\ UNCHANGED updated_subworkflow_files
                            /\ Return("False")
                       ELSE /\ Calls(<<"subworkflow.targets", "subsnakemake",
                                       "dag.updated_subworkflow_files.update">>)
                            /\ updated_subworkflow_files' =
                                 updated_subworkflow_files
                                   \cup subworkflow_updated(subworkflow, run.updated)
                            /\ Goto("subworkflow")

\* lines 954-962 with the deactivation of the IOCache left out
execute_dag_postprocess_cached ==
  /\ At("dag.postprocess")
  /\ UNCHANGED nested_vars
  /\ UNCHANGED target_vars
  /\ Calls(<<"dag.postprocess">>
             \o IF ~arguments["dryrun"]
                THEN <<"persistence.deactivate_cache">> ELSE <<>>)
  /\ Goto("nodeps")
  /\ UNCHANGED arguments

\* lines 954-962: dag.postprocess, and in a run that is not a dry run the
\* IOCache and the persistence cache are deactivated
execute_dag_postprocess ==
  /\ At("dag.postprocess")
  /\ UNCHANGED nested_vars
  /\ UNCHANGED target_vars
  /\ Calls(<<"dag.postprocess">>
             \o IF ~arguments["dryrun"]
                THEN <<"iocache.deactivate", "persistence.deactivate_cache">>
                ELSE <<>>)
  /\ Goto("nodeps")
  /\ UNCHANGED arguments

\* the target jobs of the graph when nodeps is read: one job with one input
\* file, the job to be run or not (dag.needrun), the file there or not
TargetJobs ==
  {[needrun |-> TRUE, input |-> {[name |-> "in", exists |-> TRUE]}],
   [needrun |-> TRUE, input |-> {[name |-> "in", exists |-> FALSE]}],
   [needrun |-> FALSE, input |-> {[name |-> "in", exists |-> FALSE]}]}

\* lines 965-970 without the "dag.needrun(job)" condition
missing_input_any_job(targetjobs) ==
  {f \in UNION {job.input : job \in targetjobs} : ~f.exists}

\* lines 965-970: the inputs of the target jobs that must run that do not exist
missing_input(targetjobs) ==
  {f \in UNION {job.input : job \in {j \in targetjobs : j.needrun}} :
     ~f.exists}

\* lines 964-981: "if nodeps: missing_input = [...]; if missing_input: return False"
execute_nodeps ==
  /\ At("nodeps")
  /\ UNCHANGED nested_vars
  /\ UNCHANGED target_vars
  /\ \E nodeps \in [nodeps : {FALSE}, targetjobs : {{}}]
                     \cup [nodeps : {TRUE}, targetjobs : {{j} : j \in TargetJobs}] :
        /\ Read("nodeps", nodeps)
        /\ Calls(<<>>)
        /\ IF nodeps.nodeps /\ missing_input(nodeps.targetjobs) # {}
           THEN Return("False")
           ELSE Goto("immediate_submit")

\* lines 983-991 with the test of lines 983-989 left out
execute_immediate_submit_unchecked ==
  /\ At("immediate_submit")
  /\ UNCHANGED nested_vars
  /\ UNCHANGED target_vars
  /\ UNCHANGED arguments
  /\ Calls(<<"updated_files.extend">>)
  /\ Goto("inspect")

\* lines 983-991: immediate submit with checkpoint jobs, then updated_files
execute_immediate_submit ==
  /\ At("immediate_submit")
  /\ UNCHANGED nested_vars
  /\ UNCHANGED target_vars
  /\ UNCHANGED arguments
  /\ IF arguments["immediate_submit"] /\ arguments["checkpoint_jobs"]
     THEN Calls(<<>>) /\ Return("False")
     ELSE Calls(<<"updated_files.extend">>) /\ Goto("inspect")

\* number of inspection requests given together, the graph forms apart
MaxInspections == 1

\* the elif chain of lines 993-1067, in its order
InspectionOrder ==
  <<"generate_unit_tests", "export_cwl", "report", "printd3dag", "printdag",
    "printrulegraph", "printfilegraph", "summary", "detailed_summary",
    "archive", "delete_all_output", "delete_temp_output",
    "list_version_changes", "list_code_changes", "list_input_changes",
    "list_params_changes", "list_untracked">>

\* the three graph forms are read before the chain, at line 911
GraphForms == {"printdag", "printrulegraph", "printfilegraph"}

\* the requests read by the chain only
InspectionFlags == {InspectionOrder[i] : i \in DOMAIN InspectionOrder} \ GraphForms

\* whether the request is set, requested being those of InspectionFlags set
inspection_requested(name, requested) ==
  IF name \in GraphForms THEN arguments[name] ELSE name \in requested

\* the last branch of the chain whose condition holds, 0 if none does
inspection_last(requested) ==
  LET set == {i \in DOMAIN InspectionOrder :
                inspection_requested(InspectionOrder[i], requested)}
  IN IF set = {} THEN 0 ELSE CHOOSE i \in set : \A j \in set : i >= j

\* the first branch of the chain whose condition holds, 0 if none does
inspection_first(requested) ==
  LET set == {i \in DOMAIN InspectionOrder :
                inspection_requested(InspectionOrder[i], requested)}
  IN IF set = {} THEN 0 ELSE CHOOSE i \in set : \A j \in set : i <= j

\* lines 993-1067: the first requested inspection is made and execute returns
execute_inspect ==
  /\ At("inspect")
  /\ UNCHANGED nested_vars
  /\ UNCHANGED target_vars
  /\ \E requested \in SUBSET InspectionFlags :
        /\ Cardinality(requested) <= MaxInspections
        /\ Read("inspections", requested)
        /\ IF inspection_first(requested) = 0
           THEN Calls(<<>>) /\ Goto("provision")
           ELSE /\ Calls(<<InspectionOrder[inspection_first(requested)]>>)
                /\ Return("True")

\* lines 1069-1080: container images are pulled, conda environments created
execute_provision ==
  /\ At("provision")
  /\ UNCHANGED nested_vars
  /\ UNCHANGED target_vars
  /\ \E use_singularity \in BOOLEAN, assume_shared_fs \in BOOLEAN,
        use_conda \in BOOLEAN, conda_create_envs_only \in BOOLEAN :
        /\ Read("provision",
                [use_singularity |-> use_singularity,
                 assume_shared_fs |-> assume_shared_fs,
                 use_conda |-> use_conda,
                 conda_create_envs_only |-> conda_create_envs_only])
        /\ Calls((IF use_singularity /\ assume_shared_fs
                  THEN <<"dag.pull_container_imgs">> ELSE <<>>)
                   \o (IF use_conda THEN <<"dag.create_conda_envs">> ELSE <<>>))
        /\ IF use_conda /\ conda_create_envs_only THEN Return("True")
           ELSE Goto("list_conda_envs")

\* lines 1082-1100: list_conda_envs, conda_cleanup_envs, cleanup_containers
execute_list_conda_envs ==
  /\ At("list_conda_envs")
  /\ UNCHANGED nested_vars
  /\ UNCHANGED target_vars
  /\ \E request \in {"None", "list_conda_envs", "conda_cleanup_envs",
                     "cleanup_containers"} :
        /\ Read("list_conda_envs", request)
        /\ IF request = "None" THEN Calls(<<>>) /\ Goto("JobScheduler")
           ELSE /\ Calls(<<CASE request = "list_conda_envs" -> "list_conda_envs"
                             [] request = "conda_cleanup_envs" ->
                                  "persistence.conda_cleanup_envs"
                             [] OTHER -> "persistence.cleanup_containers">>)
                /\ Return("True")

\* lines 1102-1201: the scheduler is constructed; a dry run with an empty
\* graph, and a quiet dry run, return here
execute_JobScheduler ==
  /\ At("JobScheduler")
  /\ UNCHANGED nested_vars
  /\ UNCHANGED target_vars
  /\ \E len_dag \in BOOLEAN, quiet \in BOOLEAN :
        /\ Read("JobScheduler", [len_dag |-> len_dag, quiet |-> quiet])
        /\ Calls(<<"JobScheduler">>)
        /\ IF arguments["dryrun"] /\ (~len_dag \/ quiet) THEN Return("True")
           ELSE Goto("onstart")

\* "not dryrun", the no_hooks argument left out
hooks_enabled_unless_dryrun == ~arguments["dryrun"]

\* "not dryrun and not no_hooks"
hooks_enabled == ~arguments["dryrun"] /\ ~arguments["no_hooks"]

\* lines 1203-1204
execute_onstart ==
  /\ At("onstart")
  /\ UNCHANGED nested_vars
  /\ UNCHANGED target_vars
  /\ Calls(IF hooks_enabled THEN <<"onstart">> ELSE <<>>)
  /\ Goto("schedule")
  /\ UNCHANGED arguments

\* lines 1234-1239: "success = self.scheduler.schedule()", which may raise
execute_schedule ==
  /\ At("schedule")
  /\ UNCHANGED nested_vars
  /\ UNCHANGED target_vars
  /\ \E success \in {"True", "False", "raised"} :
        /\ Read("success", success)
        /\ IF success = "raised"
           THEN /\ Calls(<<"scheduler.schedule">>
                           \o IF arguments["dryrun"]
                              THEN <<"log_provenance_info">> ELSE <<>>)
                /\ Raised
           ELSE Calls(<<"scheduler.schedule">>) /\ Goto("cleanup_workdir")

\* lines 1241-1242
execute_cleanup_workdir ==
  /\ At("cleanup_workdir")
  /\ UNCHANGED nested_vars
  /\ UNCHANGED target_vars
  /\ Calls(IF /\ ~arguments["immediate_submit"]
              /\ ~arguments["dryrun"]
              /\ arguments["mode"] = "default"
           THEN <<"dag.cleanup_workdir">> ELSE <<>>)
  /\ Goto("finish")
  /\ UNCHANGED arguments

\* lines 1244-1272: the hook of the outcome is called and execute returns
execute_finish ==
  /\ At("finish")
  /\ UNCHANGED nested_vars
  /\ UNCHANGED target_vars
  /\ UNCHANGED arguments
  /\ IF arguments["success"] = "True"
     THEN /\ Calls(IF hooks_enabled THEN <<"onsuccess">> ELSE <<>>)
          /\ Return("True")
     ELSE /\ Calls(IF hooks_enabled THEN <<"onerror">> ELSE <<>>)
          /\ Return("False")

(***************************************************************************)
(* The run specification: one call of Workflow.execute with every           *)
(* combination of the arguments read more than once, every answer of the    *)
(* collaborators and every request read once.                               *)
(***************************************************************************)
\* the arguments and workflow settings that execute reads more than once
ExecuteArguments ==
  [dryrun : BOOLEAN, printdag : BOOLEAN, printrulegraph : BOOLEAN,
   printfilegraph : BOOLEAN, no_hooks : BOOLEAN, immediate_submit : BOOLEAN,
   checkpoint_jobs : BOOLEAN, mode : {"default", "subprocess"},
   subworkflows : 0..MaxSubworkflows]

\* a call without targets: the target arguments left at their defaults
NoTargets ==
  [targets |-> {}, target_jobs |-> FALSE, prioritytargets |-> {},
   forcerun |-> {}, until |-> {}, keep_target_files |-> FALSE]

InitX ==
  /\ rules = <<>>
  /\ rule_count = 0
  /\ default_target = None
  /\ modifier_stack = <<Modifier(FALSE, "", {})>>
  /\ localrules = {}
  /\ cache_rules = <<>>
  /\ enable_cache = FALSE
  /\ pending = Nothing
  /\ error = NoError
  /\ next_id = 1
  /\ anon_count = 0
  /\ _ruleorder = <<>>
  /\ modules = {}
  /\ call = NoCall
  /\ included_stack = <<>>
  /\ pc = "start"
  /\ arguments \in {a @@ NoTargets : a \in ExecuteArguments}
  /\ trace = <<>>
  /\ result = "none"
  /\ globals = vanilla_globals
  /\ globals_backup = <<>>
  /\ updated_subworkflow_files = {}
  /\ subsnakemake_calls = <<>>
  /\ targetrules = {}
  /\ targetfiles = {}

NextX ==
  \/ execute_start
  \/ execute_wait_for_files
  \/ execute_DAG
  \/ execute_cleanup_metadata
  \/ execute_unlock
  \/ execute_dag_init
  \/ execute_lock
  \/ execute_cleanup_shadow
  \/ execute_containerize
  \/ execute_subworkflows
  \/ execute_subworkflow
  \/ execute_dag_postprocess
  \/ execute_nodeps
  \/ execute_immediate_submit
  \/ execute_inspect
  \/ execute_provision
  \/ execute_list_conda_envs
  \/ execute_JobScheduler
  \/ execute_onstart
  \/ execute_schedule
  \/ execute_cleanup_workdir
  \/ execute_finish

SpecX == InitX /\ [][NextX]_vars

(***************************************************************************)
(* Properties of the registry.                                              *)
(***************************************************************************)

\* C1: registering a rule under a name that is already in the registry,
\* while the active modifier does not permit overwrite, raises
\* CreateRuleException and leaves the name-to-Rule mapping, rule_count and
\* default_target as they were before the call.
C1_DuplicateRejected ==
  [][\A n \in DOMAIN rules :
       (call'.op = "rule" /\ call'.name = n /\ ~modifier.allow_rule_overwrite)
         => /\ error'.type = "CreateRuleException"
            /\ rules' = rules
            /\ rule_count' = rule_count
            /\ default_target' = default_target]_vars

\* a duplicate registration was rejected while a finalized rule holds the name
C1_Witness ==
  /\ call.op = "rule"
  /\ error.type = "CreateRuleException"
  /\ call.name \in DOMAIN rules
  /\ IsSet(rules[call.name].ruleinfo)
  /\ ~modifier.allow_rule_overwrite

\* C2: registering a rule under a name that is already in the registry,
\* while the active modifier permits overwrite, succeeds; the name then maps
\* to a Rule object that did not exist before and has no directive applied,
\* every other entry is untouched, the number of entries is unchanged and
\* rule_count is not incremented.
C2_OverwriteReplaces ==
  [][\A n \in DOMAIN rules :
       (call'.op = "rule" /\ call'.name = n /\ modifier.allow_rule_overwrite)
         => /\ error' = NoError
            /\ DOMAIN rules' = DOMAIN rules
            /\ Cardinality(DOMAIN rules') = Cardinality(DOMAIN rules)
            /\ rules'[n] = Rule(call'.id, n)
            /\ \A k \in DOMAIN rules : rules[k].id # call'.id
            /\ \A k \in DOMAIN rules \ {n} : rules'[k] = rules[k]
            /\ rule_count' = rule_count]_vars

\* a finalized rule holding resources was replaced by a fresh Rule
C2_Witness ==
  /\ call.op = "rule"
  /\ error = NoError
  /\ IsSet(call.replaced)
  /\ IsSet(Get(call.replaced).ruleinfo)
  /\ Get(call.replaced).resources # <<>>
  /\ rules[call.name] = Rule(call.id, call.name)
  /\ Get(call.replaced).id # call.id

\* C3: without overwrite permission no registered, finalized rule is ever
\* replaced or removed: it stays registered under its own name, whatever
\* rule is registered or finalized (and possibly renamed) after it.
C3_NoSilentReplacement ==
  [][~modifier.allow_rule_overwrite =>
       \A k \in DOMAIN rules :
          IsSet(rules[k].ruleinfo) =>
             (k \in DOMAIN rules' /\ rules'[k].id = rules[k].id)]_vars

\* C4: every key of the registry maps to a Rule whose name attribute is
\* that key, also after a finalize with a name directive.
C4_KeyIsName == \A k \in DOMAIN rules : rules[k].name = k

\* C5: the n-th call of Workflow.rule without a name chooses the name str(n)
\* and is never rejected because that name is already registered.
C5_SequentialNames ==
  (call.op \in {"rule", "rule_skipped"} /\ call.arg = None)
    => (call.orig_name = str(anon_count) /\ error.type # "CreateRuleException")

\* C6: after a finalize that raised a directive-validation error the
\* registry holds no entry for the rule that failed and default_target does
\* not name it.
C6_NoPartialRule ==
  (call.op = "decorate" /\ error # NoError)
    => /\ \A k \in DOMAIN rules : rules[k].id # call.id
       /\ default_target # call.name

(***************************************************************************)
(* Properties of the threads and resources directives.                      *)
(***************************************************************************)
\* the ruleinfo given to the last decorate call and the rule it finalized
LastRuleInfo == Get(call.ruleinfo)
LastRule == rules[call.name]

\* C7: a rule whose final name has a CLI thread override has that value as
\* its _cores resource after a successful finalize, with any threads
\* directive and with none.
C7_ThreadOverrideWins ==
  (call.op = "decorate" /\ error = NoError
     /\ call.name \in DOMAIN overwrite_threads)
    => LastRule.resources["_cores"] = overwrite_threads[call.name]

\* C8: a rule whose final name has CLI resource overrides holds the CLI
\* value under every overridden key after a successful finalize.
C8_ResourceOverrideFinal ==
  (call.op = "decorate" /\ error = NoError
     /\ call.name \in DOMAIN overwrite_resources)
    => \A key \in DOMAIN overwrite_resources[call.name] :
          LastRule.resources[key] = overwrite_resources[call.name][key]

\* n is the float of v tenths with its fraction dropped, toward zero
C9_Truncated(v, n) ==
  \/ (v >= 0 /\ 10 * n <= v /\ v < 10 * n + 10)
  \/ (v < 0 /\ 10 * n - 10 < v /\ v <= 10 * n)

\* what the threads directive t must have left in the rule's _cores
C9_CoresFromThreads(t, cores) ==
  /\ t.t = "float" => \E n \in -100..100 : C9_Truncated(t.v, n) /\ cores = IntV(n)
  /\ t.t \in {"int", "callable"} => cores = t

\* a step of decorate after the threads step assigns _cores
C9_CoresWrittenLater(ri, name) ==
  \/ IsSet(ri.resources) /\ "_cores" \in DOMAIN Get(ri.resources).kw
  \/ name \in DOMAIN overwrite_resources
       /\ "_cores" \in DOMAIN overwrite_resources[name]
  \/ ri.handover /\ ~IsSet(ri.resources) /\ global_resources["_cores"] # NoneV

\* C9 as stated: with no CLI thread override, after finalize _cores is the
\* float threads value truncated toward zero, or the integer or callable
\* unchanged; any other threads value raises RuleException.
C9_ThreadsStored ==
  (call.op = "decorate" /\ call.name \notin DOMAIN overwrite_threads
     /\ LastRuleInfo.threads # NoneV)
    => /\ error = NoError
            => C9_CoresFromThreads(LastRuleInfo.threads,
                                   LastRule.resources["_cores"])
       /\ LastRuleInfo.threads.t \notin {"int", "float", "callable"}
            => error.type = "RuleException"

\* C9 amended: the same, for every finalize in which no later step assigns
\* _cores (a resources directive or CLI resource override naming _cores, or
\* a handover without resources directive); the failure holds in all cases.
C9_ThreadsStoredUnlessRewritten ==
  (call.op = "decorate" /\ call.name \notin DOMAIN overwrite_threads
     /\ LastRuleInfo.threads # NoneV)
    => /\ (error = NoError /\ ~C9_CoresWrittenLater(LastRuleInfo, call.name))
            => C9_CoresFromThreads(LastRuleInfo.threads,
                                   LastRule.resources["_cores"])
       /\ LastRuleInfo.threads.t \notin {"int", "float", "callable"}
            => error.type = "RuleException"

\* threads=3.9 was finalized as _cores == 3
C9_Witness ==
  /\ call.op = "decorate"
  /\ error = NoError
  /\ call.name \notin DOMAIN overwrite_threads
  /\ LastRuleInfo.threads = FloatV(39)
  /\ ~C9_CoresWrittenLater(LastRuleInfo, call.name)
  /\ LastRule.resources["_cores"] = IntV(3)

\* C10: a resources directive with a positional argument makes finalize fail
\* whatever its named values are; one whose named values are all integers,
\* strings or callables passes the resources checks and, when finalize
\* succeeds, every named key is in the rule's resource map with the
\* directive's value (the CLI value where the CLI overrides that key); one
\* with any other value type makes finalize fail.
C10_Resources ==
  (call.op = "decorate" /\ IsSet(LastRuleInfo.resources))
    => LET args == Get(LastRuleInfo.resources).args
           kw == Get(LastRuleInfo.resources).kw
           named_ok == \A k \in DOMAIN kw : kw[k].t \in {"int", "str", "callable"}
           cli == IF call.name \in DOMAIN overwrite_resources
                  THEN overwrite_resources[call.name] ELSE <<>>
       IN /\ Len(args) > 0 => error.type = "RuleException"
          /\ (Len(args) = 0 /\ ~named_ok) => error.type = "RuleException"
          /\ (Len(args) = 0 /\ named_ok)
               => /\ error.msg \notin
                       {"Resources have to be named.",
                        "Resources values have to be integers, strings, or callables (functions)"}
                  /\ error = NoError =>
                       \A k \in DOMAIN kw :
                          /\ k \in DOMAIN LastRule.resources
                          /\ LastRule.resources[k] =
                               IF k \in DOMAIN cli THEN cli[k] ELSE kw[k]

\* a resources directive with valid named values was merged over the
\* default resources
C10_Witness ==
  /\ call.op = "decorate"
  /\ error = NoError
  /\ IsSet(LastRuleInfo.resources)
  /\ DOMAIN Get(LastRuleInfo.resources).kw = {"_cores", "mem"}
  /\ LastRule.resources["mem"] = StrV(1)
  /\ LastRule.resources["_cores"] = IntV(5)
  /\ LastRule.resources["_nodes"] = IntV(1)

(***************************************************************************)
(* Properties of the environment and cache directives.                      *)
(***************************************************************************)
\* the rule has one of shell, script, notebook or wrapper
C11_HasMethod(ri) ==
  ri.shellcmd # None \/ ri.script # None \/ ri.notebook # None \/ ri.wrapper # None

\* the rule carries a conda, container or envmodules directive
C11_CarriesEnv(ri) ==
  ri.conda_env # None \/ ri.container_img # None \/ ri.env_modules # <<>>

\* the messages of the three checks of the execution method
C11_Messages ==
  {"envmodules directive is only allowed with ...",
   "Conda environments are only allowed with ...",
   "Singularity directive is only allowed with ..."}

C12_NoRunCarriesNothing ==
  (call.op = "decorate" /\ LastRuleInfo.norun
     /\ (C11_CarriesEnv(LastRuleInfo) \/ LastRuleInfo.cache # None))
    => error # NoError

\* the rule has two or more outputs, none declared through multiext()
C13_PlainOutputs(ri) ==
  Len(ri.output) > 1 /\ \A i \in 1..Len(ri.output) : ~ri.output[i].is_multiext

\* C13: a rule with a cache directive and several outputs not declared
\* through multiext() fails at finalize with WorkflowError when caching is
\* enabled, and does not fail on that check when caching is disabled.
C13_MultiOutputCache ==
  (call.op = "decorate" /\ LastRuleInfo.cache # None
     /\ ~C11_CarriesEnv(LastRuleInfo) /\ C13_PlainOutputs(LastRuleInfo))
    => /\ enable_cache => error.type = "WorkflowError"
       /\ ~enable_cache => error = NoError

\* C14: finalizing a rule that has both a cache directive and a benchmark
\* directive fails, with caching enabled and with caching disabled.
C14_NoBenchmarkWithCache ==
  (call.op = "decorate" /\ LastRuleInfo.cache # None
     /\ LastRuleInfo.benchmark # None)
    => error # NoError

(***************************************************************************)
(* Properties of ruleorder and check.                                       *)
(***************************************************************************)
\* C15: check raises UnknownRuleException if and only if some clause holds a
\* name that is not a key of the registry, and raises nothing otherwise; a
\* ruleorder call appends its clause after the clauses declared before it,
\* and no other call changes the clauses.
C15_CheckRuleorder ==
  [][/\ call'.op = "check" =>
          /\ error'.type = "UnknownRuleException"
               <=> (\E i \in DOMAIN _ruleorder : \E j \in DOMAIN _ruleorder[i] :
                      _ruleorder[i][j] \notin DOMAIN rules)
          /\ error'.type # "UnknownRuleException" => error' = NoError
     /\ call'.op = "ruleorder" =>
          \E c \in Clauses :
             _ruleorder' = _ruleorder \o
                <<[i \in DOMAIN c |-> modify_rulename(modifier, c[i])]>>
     /\ call'.op # "ruleorder" => _ruleorder' = _ruleorder]_vars

\* check succeeded with two different clauses held in the order declared
C15_Witness ==
  /\ call.op = "check"
  /\ error = NoError
  /\ _ruleorder = <<(<<"a", "b">>), (<<"b", "a">>)>>
  /\ DOMAIN rules = {"a", "b"}

(***************************************************************************)
(* Properties of use rule statements and of the modifier stack.             *)
(***************************************************************************)
\* a step that is a local use rule statement naming more than one rule
C16_LocalMany ==
  /\ call'.op \in {"userule", "userule_skipped"}
  /\ call'.from_module = None
  /\ Len(call'.rulenames) > 1

\* a step that is a use rule statement whose from_module is not registered
C16_UnknownModule ==
  /\ call'.op = "userule"
  /\ call'.from_module # None
  /\ call'.from_module \notin modules

\* the step raised an error and registered no rule
C16_FailedNoRule ==
  /\ error' # NoError
  /\ rules' = rules
  /\ rule_count' = rule_count

\* C16 as stated: a local use rule statement naming more than one rule fails
\* and registers no rule; a use rule statement whose from_module was never
\* registered fails with WorkflowError and registers no rule.
C16_UseRuleRejected ==
  [][/\ C16_LocalMany => C16_FailedNoRule
     /\ C16_UnknownModule => (C16_FailedNoRule /\ error'.type = "WorkflowError")
     /\ call'.op = "use_rules_enter" => modules # {}]_vars

\* C16 amended: the same, unless the active modifier skips the new name of
\* the local statement (it is in the exclusion list of the enclosing scope);
\* then the statement returns without error and registers no rule.
C16_UseRuleRejectedUnlessSkipped ==
  [][/\ (C16_LocalMany /\ ~skip_rule(modifier, call'.arg)) => C16_FailedNoRule
     /\ (C16_LocalMany /\ skip_rule(modifier, call'.arg))
          => (error' = NoError /\ rules' = rules /\ rule_count' = rule_count)
     /\ C16_UnknownModule => (C16_FailedNoRule /\ error'.type = "WorkflowError")
     /\ call'.op = "use_rules_enter" => modules # {}]_vars

\* a local use rule statement naming two rules was rejected while its first
\* rule is registered and finalized
C16_Witness ==
  /\ call.op = "userule"
  /\ call.from_module = None
  /\ Len(call.rulenames) = 2
  /\ error.type = "WorkflowError"
  /\ call.orig_name \in DOMAIN rules
  /\ IsSet(rules[call.orig_name].ruleinfo)

\* C17: after a successful local use rule statement the source rule is still
\* registered under its name, unchanged, and a different entry of the
\* registry holds the clone, whose directive values are those of the source
\* except the ones overridden inline (threads).
C17_IndependentClone ==
  [][(call'.op = "userule" /\ call'.from_module = None /\ error' = NoError)
       => LET src == call'.orig_name
          IN /\ src \in DOMAIN rules'
             /\ rules'[src] = rules[src]
             /\ \E k \in DOMAIN rules' \ {src} :
                   /\ rules'[k].id = call'.id
                   /\ \A f \in DOMAIN RuleInfo \ {"threads"} :
                         Get(rules'[k].ruleinfo)[f] = Get(rules[src].ruleinfo)[f]]_vars

AfterLock(calls) ==
  \A j \in DOMAIN trace :
     trace[j] \in calls => \E i \in 1..(j - 1) : trace[i] = "persistence.lock"

\* C19: a nested run, the provisioning of container images and conda
\* environments, and the scheduler's run entry point are each called only
\* after persistence.lock() was called.
C19_LockBeforeExecution ==
  AfterLock({"subsnakemake", "dag.pull_container_imgs",
             "dag.create_conda_envs", "scheduler.schedule"})

\* a run that made a nested run, provisioned and ran the scheduler
C19_Witness ==
  /\ result = "True"
  /\ \E i \in DOMAIN trace :
        /\ trace[i] = "persistence.lock"
        /\ \E j \in (i + 1)..Len(trace) :
              /\ trace[j] = "subsnakemake"
              /\ \E k \in (j + 1)..Len(trace) :
                    /\ trace[k] = "dag.create_conda_envs"
                    /\ \E l \in (k + 1)..Len(trace) :
                          trace[l] = "scheduler.schedule"

\* C20: the maintenance actions (metadata cleanup, unlock, shadow cleanup,
\* containerization export) and the materialization of the graph (dag.init,
\* dag.update_checkpoint_dependencies, dag.check_dynamic) are each performed
\* only after persistence.lock() was called.
C20_LockBeforeMaintenance ==
  AfterLock({"persistence.cleanup_metadata", "persistence.cleanup_locks",
             "persistence.cleanup_shadow", "containerize", "dag.init",
             "dag.update_checkpoint_dependencies", "dag.check_dynamic"})

(***************************************************************************)
(* Properties of the ways execute ends.                                     *)
(***************************************************************************)
\* execute has ended with the value given
Returned(value) == pc = "returned" /\ result = value

\* the call was made
Called(name) == \E i \in DOMAIN trace : trace[i] = name

\* C21: whenever execute returns failure after persistence.lock() was
\* called (a nested run failed, inputs are missing with nodeps, immediate
\* submit with checkpoint jobs, the scheduler failed), the lock was released
\* by a call of persistence.unlock() made after the lock, before the return.
C21_LockReleasedOnFailure ==
  (Returned("False") /\ Called("persistence.lock"))
    => \E i \in DOMAIN trace :
          /\ trace[i] = "persistence.lock"
          /\ \E j \in (i + 1)..Len(trace) : trace[j] = "persistence.unlock"

\* the unlock request was read and was set
UnlockRequested ==
  "unlock" \in DOMAIN arguments /\ arguments["unlock"] \in UnlockRequests

\* C22: a run with unlock requested never constructs or runs the scheduler
\* and never makes a nested run; it calls persistence.cleanup_locks() and
\* returns True when that succeeds, also when nothing was locked, and returns
\* False, without raising, when it raises IOError.
C22_UnlockReturns ==
  UnlockRequested
    => /\ ~Called("JobScheduler")
       /\ ~Called("scheduler.schedule")
       /\ ~Called("subsnakemake")
       /\ trace[Len(trace)] = "persistence.cleanup_locks"
       /\ Returned(IF arguments["unlock"] = "IOError" THEN "False" ELSE "True")

\* unlock was requested, cleanup_locks raised IOError and execute returned
\* False
C22_Witness ==
  /\ UnlockRequested
  /\ arguments["unlock"] = "IOError"
  /\ Returned("False")
  /\ Called("persistence.cleanup_locks")

\* the four early-exit maintenance actions: the argument that requests each
\* and the call that performs it
MaintenanceActions ==
  [cleanup_metadata |-> "persistence.cleanup_metadata",
   unlock |-> "persistence.cleanup_locks",
   cleanup_shadow |-> "persistence.cleanup_shadow",
   containerize |-> "containerize"]

\* the request of the action was read and was set
MaintenanceRequested(action) ==
  /\ action \in DOMAIN arguments
  /\ CASE action = "cleanup_metadata" -> arguments[action] # <<>>
       [] action = "unlock" -> arguments[action] \in UnlockRequests
       [] OTHER -> arguments[action]

\* the calls of the states after the maintenance actions: nested runs,
\* inspection, provisioning, hooks, the scheduler
LaterCalls ==
  {InspectionOrder[i] : i \in DOMAIN InspectionOrder}
    \cup {"subsnakemake", "dag.pull_container_imgs", "dag.create_conda_envs",
          "list_conda_envs", "persistence.conda_cleanup_envs",
          "persistence.cleanup_containers", "JobScheduler", "onstart",
          "scheduler.schedule", "onsuccess", "onerror"}

\* no pre-flight check was made: the nodeps test, which comes first of the
\* two, was never reached
NoPreflight == "nodeps" \notin DOMAIN arguments

\* C23: in a run where a maintenance action (metadata cleanup, unlock,
\* shadow cleanup, containerization export) is requested, the action is
\* performed as the last call of the run and execute has returned at once,
\* with True unless the unlock raised IOError: no nested run, inspection,
\* provisioning, pre-flight check, hook or scheduler construction was made.
C23_MaintenanceReturns ==
  \A action \in DOMAIN MaintenanceActions :
     MaintenanceRequested(action)
       => /\ trace[Len(trace)] = MaintenanceActions[action]
          /\ pc = "returned"
          /\ result = IF action = "unlock" /\ arguments[action] = "IOError"
                      THEN "False" ELSE "True"
          /\ \A i \in DOMAIN trace : trace[i] \notin LaterCalls
          /\ NoPreflight

\* the shadow cleanup was requested and made after the lock, and execute
\* returned True
C23_Witness ==
  /\ MaintenanceRequested("cleanup_shadow")
  /\ Called("persistence.lock")
  /\ Called("persistence.cleanup_shadow")
  /\ Returned("True")

\* some target job that must run has an input file that does not exist
MustRunMissing(targetjobs) ==
  \E job \in targetjobs : job.needrun /\ \E f \in job.input : ~f.exists

\* the run went through the nodeps test of lines 964-981 without returning
NodepsPassed ==
  /\ "nodeps" \in DOMAIN arguments
  /\ arguments["nodeps"].nodeps => ~MustRunMissing(arguments["nodeps"].targetjobs)

\* C24: with immediate submit requested and a checkpoint job in the graph
\* the scheduler is never constructed and never run, and a run that gets to
\* the test of line 983 returns False there.
C24_ImmediateSubmitCheckpoint ==
  (arguments["immediate_submit"] /\ arguments["checkpoint_jobs"])
    => /\ ~Called("JobScheduler")
       /\ ~Called("scheduler.schedule")
       /\ (NodepsPassed /\ pc # "immediate_submit") => Returned("False")

\* immediate submit with a checkpoint job: the graph was post-processed, the
\* nodeps test passed and execute returned False
C24_Witness ==
  /\ arguments["immediate_submit"]
  /\ arguments["checkpoint_jobs"]
  /\ Called("dag.postprocess")
  /\ NodepsPassed
  /\ Returned("False")

\* the nodeps test was made with nodeps set
NodepsActive == "nodeps" \in DOMAIN arguments /\ arguments["nodeps"].nodeps

\* C25: with nodeps active, when some target job that must run has an input
\* file that does not exist execute returns False and the scheduler was not
\* constructed; when there is no such file the statement after the test is
\* the next one to run.
C25_NodepsMissingInput ==
  /\ [](NodepsActive /\ MustRunMissing(arguments["nodeps"].targetjobs)
          => Returned("False") /\ ~Called("JobScheduler"))
  /\ [][(pc = "nodeps" /\ arguments'["nodeps"].nodeps
           /\ ~MustRunMissing(arguments'["nodeps"].targetjobs))
          => pc' = "immediate_submit"]_vars

\* nodeps with a target job that must run and lacks its input: execute
\* returned False after the graph was post-processed
C25_Witness ==
  /\ NodepsActive
  /\ MustRunMissing(arguments["nodeps"].targetjobs)
  /\ Called("dag.postprocess")
  /\ Returned("False")

\* nodeps with a target job that lacks its input but need not run: the
\* scheduler was constructed
C25_WitnessProceeds ==
  /\ NodepsActive
  /\ \E job \in arguments["nodeps"].targetjobs :
        ~job.needrun /\ \E f \in job.input : ~f.exists
  /\ Called("JobScheduler")

(***************************************************************************)
(* Properties of the inspection and provisioning steps of execute.          *)
(***************************************************************************)
\* the names of the inspection actions
InspectionNames == {InspectionOrder[i] : i \in DOMAIN InspectionOrder}

\* the inspection requests of a run that has got to the chain of line 993
InspectionsRequested ==
  arguments["inspections"] \cup {g \in GraphForms : arguments[g]}

\* the place of an inspection action in the order of precedence
Precedence(name) == CHOOSE i \in DOMAIN InspectionOrder : InspectionOrder[i] = name

\* C26: when the run gets to the inspection step with at least one
\* inspection request set, exactly one inspection action is performed, it is
\* the requested one that comes first in the order of precedence, execute
\* has returned True, and no environment was provisioned, no hook called and
\* the scheduler neither constructed nor run.
C26_OneInspection ==
  ("inspections" \in DOMAIN arguments /\ InspectionsRequested # {})
    => /\ Returned("True")
       /\ Cardinality({i \in DOMAIN trace : trace[i] \in InspectionNames}) = 1
       /\ trace[Len(trace)] \in InspectionsRequested
       /\ \A r \in InspectionsRequested :
             Precedence(trace[Len(trace)]) <= Precedence(r)
       /\ \A i \in DOMAIN trace :
             trace[i] \notin {"dag.pull_container_imgs", "dag.create_conda_envs",
                              "onstart", "onsuccess", "onerror", "JobScheduler",
                              "scheduler.schedule"}

\* a report was requested together with two of the graph forms, and the
\* report alone was made
C26_Witness ==
  /\ "inspections" \in DOMAIN arguments
  /\ arguments["inspections"] = {"report"}
  /\ arguments["printdag"]
  /\ arguments["printfilegraph"]
  /\ trace[Len(trace)] = "report"
  /\ Returned("True")

\* the run has got to the provisioning step with conda_create_envs_only set
ProvisioningOnly ==
  "provision" \in DOMAIN arguments /\ arguments["provision"].conda_create_envs_only

\* C27: when provisioning only is requested, with every combination of
\* use_conda, use_singularity and assume_shared_fs, execute goes no further
\* than the provisioning step: the scheduler is neither constructed nor run,
\* and the value returned is True.
C27_ProvisioningOnlyReturns ==
  ProvisioningOnly
    => /\ ~Called("JobScheduler")
       /\ ~Called("scheduler.schedule")
       /\ pc = "returned" => result = "True"

(***************************************************************************)
(* Properties of the subworkflow phase of execute.                          *)
(***************************************************************************)
\* the last call made is a nested run: the nested run reported failure, a
\* successful one being followed by the update of the updated files
NestedRunFailed == trace # <<>> /\ trace[Len(trace)] = "subsnakemake"

\* C28: the nested runs are made one after another in the order of the
\* registry, one blocking call each, and when a nested run reports failure
\* execute has returned False at once: the loop has not gone to a later
\* subworkflow, and no inspection, provisioning, pre-flight check or
\* scheduler construction was made.
C28_NestedFailureAborts ==
  /\ \A i, j \in DOMAIN subsnakemake_calls :
        i < j => subsnakemake_calls[i].workdir < subsnakemake_calls[j].workdir
  /\ Len(subsnakemake_calls)
       = Cardinality({i \in DOMAIN trace : trace[i] = "subsnakemake"})
  /\ NestedRunFailed
       => /\ Returned("False")
          /\ subworkflows_done = subsnakemake_calls[Len(subsnakemake_calls)].workdir
          /\ \A i \in DOMAIN trace : trace[i] \notin LaterCalls \ {"subsnakemake"}
          /\ ~Called("dag.postprocess")
          /\ NoPreflight

\* files are requested from two subworkflows, the nested run of the first
\* failed, and execute returned False without a nested run of the second
C28_Witness ==
  /\ NestedRunFailed
  /\ Returned("False")
  /\ Cardinality(DOMAIN arguments["subworkflow_input"]) = 2
  /\ Len(subsnakemake_calls) = 1
  /\ subsnakemake_calls[1].workdir = 1

\* the subworkflow phase is enabled: self.execute_subworkflows is set and no
\* graph-printing mode is requested
NestedRunsEnabled ==
  /\ arguments["execute_subworkflows"]
  /\ ~arguments["printdag"]
  /\ ~arguments["printrulegraph"]
  /\ ~arguments["printfilegraph"]

\* a job of the graph requests a file from the subworkflow
RequestedFrom(subworkflow) ==
  \E f \in DOMAIN arguments["subworkflow_input"] :
     arguments["subworkflow_input"][f] = subworkflow

\* a nested run of the subworkflow was made
NestedRunOf(subworkflow) ==
  \E i \in DOMAIN subsnakemake_calls : subsnakemake_calls[i].workdir = subworkflow

\* C29: a nested run is made of a registered subworkflow only if the
\* subworkflow phase is enabled and a job of the graph requests a file from
\* it, and when the graph is post-processed a nested run has been made of
\* every such subworkflow; every file a successful nested run reported as
\* updated is then, as a path under the working directory of the
\* subworkflow, among the updated subworkflow files of the graph.
C29_NestedRunIffRequested ==
  /\ \A i \in DOMAIN subsnakemake_calls :
        /\ subsnakemake_calls[i].workdir \in 1..arguments["subworkflows"]
        /\ NestedRunsEnabled
        /\ RequestedFrom(subsnakemake_calls[i].workdir)
  /\ Called("dag.postprocess")
       => /\ \A subworkflow \in 1..arguments["subworkflows"] :
                (NestedRunsEnabled /\ RequestedFrom(subworkflow))
                  => NestedRunOf(subworkflow)
          /\ \A i \in DOMAIN subsnakemake_calls :
                /\ subsnakemake_calls[i].success
                /\ \A f \in subsnakemake_calls[i].updated :
                      Path(subsnakemake_calls[i].workdir, f.name)
                        \in updated_subworkflow_files

\* of two subworkflows only the second is requested a file; its nested run
\* alone was made, its updated file is recorded and the graph post-processed
C29_Witness ==
  /\ Called("dag.postprocess")
  /\ arguments["subworkflows"] = 2
  /\ ~RequestedFrom(1)
  /\ RequestedFrom(2)
  /\ Len(subsnakemake_calls) = 1
  /\ subsnakemake_calls[1].workdir = 2
  /\ subsnakemake_calls[1].updated # {}
  /\ updated_subworkflow_files = {Path(2, "out")}

\* the subworkflow phase was entered and is over: the loop was left by its
\* end or by the return of line 941
NestedPhaseOver == Called("globals_backup") /\ pc # "subworkflow"

\* C30: once the subworkflow phase is over, by its end or by the failure of
\* a nested run, the namespace is what it was when the phase began: every
\* name is bound to what it was bound to and no name was added.
C30_GlobalsRestored == NestedPhaseOver => globals = globals_backup

(***************************************************************************)
(* Properties of the scheduler handoff of execute.                          *)
(***************************************************************************)
\* the number of calls of the name made so far
CallCount(name) == Cardinality({i \in DOMAIN trace : trace[i] = name})

\* the place of the first call of the name
FirstCall(name) == CHOOSE i \in DOMAIN trace :
                     trace[i] = name /\ \A j \in 1..(i - 1) : trace[j] # name

\* scheduler.schedule() has returned the boolean and execute has returned
ScheduleReturned(success) ==
  /\ pc = "returned"
  /\ "success" \in DOMAIN arguments
  /\ arguments["success"] = success

\* C31: in a run that has called the scheduler's run entry point: when it
\* is not a dry run and hooks are not disabled, onstart was called once and
\* before the scheduler, and once the scheduler has returned and execute
\* with it, exactly one of onsuccess and onerror was called, onsuccess for
\* true and onerror for false, and execute returned that boolean; in a dry
\* run or with hooks disabled none of the three hooks was called.
C31_HookProtocol ==
  Called("scheduler.schedule")
    => IF ~arguments["dryrun"] /\ ~arguments["no_hooks"]
       THEN /\ CallCount("onstart") = 1
            /\ FirstCall("onstart") < FirstCall("scheduler.schedule")
            /\ CallCount("onsuccess") + CallCount("onerror") <= 1
            /\ ScheduleReturned("True")
                 => /\ CallCount("onsuccess") = 1 /\ CallCount("onerror") = 0
                    /\ result = "True"
            /\ ScheduleReturned("False")
                 => /\ CallCount("onerror") = 1 /\ CallCount("onsuccess") = 0
                    /\ result = "False"
       ELSE /\ ~Called("onstart") /\ ~Called("onsuccess") /\ ~Called("onerror")
            /\ ScheduleReturned("True") => result = "True"
            /\ ScheduleReturned("False") => result = "False"

\* a run with hooks whose scheduler returned false: onstart, the scheduler,
\* onerror, and False returned
C31_Witness ==
  /\ ~arguments["dryrun"]
  /\ ~arguments["no_hooks"]
  /\ ScheduleReturned("False")
  /\ Called("onstart")
  /\ trace[Len(trace)] = "onerror"
  /\ result = "False"

\* a run with hooks disabled whose scheduler returned true
C31_WitnessNoHooks ==
  /\ ~arguments["dryrun"]
  /\ arguments["no_hooks"]
  /\ ScheduleReturned("True")
  /\ result = "True"

\* C32: in a run that has called the scheduler's run entry point and has
\* ended, by a return or by an error of the scheduler, dag.cleanup_workdir()
\* was called exactly once when the run is neither a dry run nor in
\* immediate-submit mode, with hooks enabled or not, and was not called when
\* it is a dry run or in immediate-submit mode.
C32_WorkdirCleanup ==
  (Called("scheduler.schedule") /\ pc = "returned")
    => IF ~arguments["dryrun"] /\ ~arguments["immediate_submit"]
       THEN CallCount("dag.cleanup_workdir") = 1
       ELSE CallCount("dag.cleanup_workdir") = 0

\* the call was made after the graph was built and before the scheduler's
\* run entry point, and after it neither a cache was activated nor a new
\* persistence or graph constructed
DeactivatedForScheduler(name) ==
  \E i \in DOMAIN trace :
     /\ trace[i] = name
     /\ \E g \in 1..(i - 1) : trace[g] = "dag.init"
     /\ \E k \in (i + 1)..Len(trace) : trace[k] = "scheduler.schedule"
     /\ \A k \in (i + 1)..Len(trace) :
           trace[k] \notin {"DAG", "Persistence", "iocache.activate",
                            "persistence.activate_cache"}

\* C33: in a run that is not a dry run and has called the scheduler's run
\* entry point, iocache.deactivate() and persistence.deactivate_cache() were
\* both called after the graph was built and before the scheduler, and
\* nothing execute called afterwards activates a cache again.
C33_CachesDeactivated ==
  (Called("scheduler.schedule") /\ ~arguments["dryrun"])
    => /\ DeactivatedForScheduler("iocache.deactivate")
       /\ DeactivatedForScheduler("persistence.deactivate_cache")

\* a run in the default mode, where the persistence cache is not
\* deactivated at construction, that ran the scheduler with both caches off
C33_Witness ==
  /\ ~arguments["dryrun"]
  /\ arguments["mode"] = "default"
  /\ Called("scheduler.schedule")
  /\ CallCount("persistence.deactivate_cache") = 1
  /\ CallCount("iocache.deactivate") = 1
  /\ result = "True"

(***************************************************************************)
(* Workflow.include: a Snakefile is executed inside the call; the default   *)
(* target of the moment of the call is put back on return unless the call   *)
(* asks to overwrite it.                                                    *)
(***************************************************************************)
MaxIncludes == 2

\* lines 1360-1363: the call is pushed on included_stack and keeps the
\* default target in a local
include_enter(overwrite_default_target) ==
  /\ error = NoError
  /\ UNCHANGED exec_vars
  /\ ~IsSet(pending)
  /\ Len(included_stack) < MaxIncludes
  /\ included_stack' =
       Append(included_stack,
              [default_target |-> default_target,
               overwrite_default_target |-> overwrite_default_target])
  /\ call' = [NoCall EXCEPT !.op = "include_enter"]
  /\ UNCHANGED <<rules, rule_count, default_target, modifier_stack,
                 localrules, cache_rules, enable_cache, pending, error,
                 next_id, anon_count, _ruleorder, modules>>

\* the default target on return with the restoring assignment left out
include_default_target_kept(frame) == default_target

\* lines 1384-1385: "if not overwrite_default_target:
\* self.default_target = default_target"
include_default_target(frame) ==
  IF ~frame.overwrite_default_target THEN frame.default_target
  ELSE default_target

\* lines 1384-1386: the Snakefile has been executed; the call returns
include_exit ==
  /\ error = NoError
  /\ UNCHANGED exec_vars
  /\ ~IsSet(pending)
  /\ Len(included_stack) > 0
  /\ default_target' = include_default_target(included_stack[Len(included_stack)])
  /\ included_stack' = SubSeq(included_stack, 1, Len(included_stack) - 1)
  /\ call' = [NoCall EXCEPT !.op = "include_exit"]
  /\ UNCHANGED <<rules, rule_count, modifier_stack, localrules, cache_rules,
                 enable_cache, pending, error, next_id, anon_count,
                 _ruleorder, modules>>

(***************************************************************************)
(* The target specification: rules are registered and finalized, at the     *)
(* top level and inside includes, some renamed, some flagged as default     *)
(* target, some with a wildcard in their output; then execute is called     *)
(* and resolves its targets.                                                *)
(***************************************************************************)
MaxTargetRules == 2

TargetRuleNames == {"a", "w"}

\* an output file with a wildcard in its name
WildcardOutFile == [is_multiext |-> FALSE, wildcards |-> TRUE]

TargetRuleInfos ==
  {[RuleInfo EXCEPT !.name = n, !.default_target = d, !.output = o] :
     n \in {None, "b"}, d \in {"False", "True"},
     o \in {<<>>, <<WildcardOutFile>>}}

RegisterT ==
  /\ pc = "not called"
  /\ \E n \in TargetRuleNames : rule(n, MaxTargetRules)

FinalizeT ==
  /\ pc = "not called"
  /\ \E ri \in TargetRuleInfos : decorate(ri)

IncludeT ==
  /\ pc = "not called"
  /\ \E overwrite_default_target \in BOOLEAN :
       include_enter(overwrite_default_target)

IncludeExitT ==
  /\ pc = "not called"
  /\ include_exit

\* the target arguments of the call of execute
TargetArguments ==
  [targets : SUBSET {"a", "b", "./f"}, target_jobs : BOOLEAN,
   prioritytargets : {{}, {"./f"}}, forcerun : {{}, {"a"}, {"w"}},
   until : {{}, {"b"}}, keep_target_files : BOOLEAN]

\* a clause naming a rule that is never registered
RuleorderT ==
  /\ pc = "not called"
  /\ _ruleorder = <<>>
  /\ ruleorder(<<"a", "z">>)

\* execute is called once the Snakefile and its includes have been executed
ExecuteT ==
  /\ pc = "not called"
  /\ error = NoError
  /\ ~IsSet(pending)
  /\ included_stack = <<>>
  /\ pc' = "start"
  /\ \E t \in TargetArguments :
       arguments' =
         [dryrun |-> FALSE, printdag |-> FALSE, printrulegraph |-> FALSE,
          printfilegraph |-> FALSE, no_hooks |-> FALSE,
          immediate_submit |-> FALSE, checkpoint_jobs |-> FALSE,
          mode |-> "default", subworkflows |-> 0] @@ t
  /\ UNCHANGED <<trace, result, nested_vars, target_vars>>
  /\ UNCHANGED definition_vars

NextT ==
  RegisterT \/ FinalizeT \/ IncludeT \/ IncludeExitT \/ RuleorderT
    \/ ExecuteT \/ execute_start

SpecT == Init /\ [][NextT]_vars

(***************************************************************************)
(* Properties of the default target and of the target resolution.           *)
(***************************************************************************)
\* the registry keys of the rules finalized with "default_target: True"
FlaggedRules ==
  {k \in DOMAIN rules :
     /\ IsSet(rules[k].ruleinfo)
     /\ Get(rules[k].ruleinfo).default_target = "True"}

\* the rule under key k is the most recent flagged rule or, when no rule is
\* flagged, the first rule registered
DefaultTargetAsClaimed(k) ==
  IF FlaggedRules # {}
  THEN k \in FlaggedRules /\ \A j \in FlaggedRules : rules[j].id <= rules[k].id
  ELSE rules[k].id = 1

\* C35: after every sequence of registrations, finalizations and includes
\* the default target is the first rule registered, unless rules were
\* finalized with the default-target flag, and then it is the most recent of
\* them; whenever it is set it is the registry key of a registered rule
C35_DefaultTarget ==
  (error = NoError /\ ~IsSet(pending))
    => /\ default_target # None
            => is_rule(default_target) /\ DefaultTargetAsClaimed(default_target)
       /\ default_target = None => DOMAIN rules = {}

\* the file target a requested target that is no rule name becomes
FileTargetOf(t) ==
  IF arguments["keep_target_files"] THEN t ELSE target_relpath(t)

\* the targets have been resolved
TargetsResolved == pc \notin {"not called", "start"}

\* nothing is requested: no targets, no target jobs, and no rule or file to
\* prioritize, to force or to stop at
NothingRequested ==
  /\ arguments["targets"] = {}
  /\ ~arguments["target_jobs"]
  /\ arguments["prioritytargets"] = {}
  /\ arguments["forcerun"] = {}
  /\ arguments["until"] = {}

\* C34: target resolution partitions the requested targets: every requested
\* target that is a registered rule name is a rule target, every other one
\* is a file target, none is dropped and none is both; when no targets and
\* no target jobs are requested, the resolved targets are exactly the
\* default target rule if a default target is set, and are empty otherwise
C34_TargetPartition ==
  TargetsResolved
    => /\ \A t \in arguments["targets"] :
            IF is_rule(t)
            THEN rules[t] \in targetrules /\ FileTargetOf(t) \notin targetfiles
            ELSE FileTargetOf(t) \in targetfiles
                   /\ \A r \in targetrules : r.name # t
       /\ NothingRequested
            => /\ targetfiles = {}
               /\ default_target = None => targetrules = {}
               /\ default_target # None
                    => /\ is_rule(default_target)
                       /\ targetrules = {rules[default_target]}

\* C38: a run rejects an invalid ruleorder in its first state: when a
\* ruleorder clause names something that is no registered rule, execute
\* fails with an unknown-rule error before the targets are resolved, the
\* graph is built or the lock is taken
C38_InvalidRuleorderRejected ==
  (pc \notin {"not called", "start"} /\ check_unknown # {})
    => /\ Returned("raised")
       /\ ~Called("resolve_targets")
       /\ ~Called("DAG")
       /\ ~Called("persistence.lock")

(***************************************************************************)
(* The frozen-registry specification: a rule is registered and finalized    *)
(* as a local rule, a ruleorder clause is declared, then execute is called  *)
(* and runs to its return.                                                  *)
(***************************************************************************)
MaxRunRules == 1

RunRuleInfos ==
  {[RuleInfo EXCEPT !.name = n, !.localrule = "True"] : n \in {None, "b"}}

RegisterR ==
  /\ pc = "not called"
  /\ rule("a", MaxRunRules)

FinalizeR ==
  /\ pc = "not called"
  /\ \E ri \in RunRuleInfos : decorate(ri)

\* the arguments of the call: no targets, the graph not printed
RunArguments ==
  {a @@ NoTargets :
     a \in {a \in ExecuteArguments :
              /\ ~a.printdag /\ ~a.printrulegraph /\ ~a.printfilegraph
              /\ ~a.no_hooks /\ ~a.checkpoint_jobs /\ ~a.immediate_submit
              /\ a.mode = "default"}}

ExecuteR ==
  /\ pc = "not called"
  /\ error = NoError
  /\ ~IsSet(pending)
  /\ pc' = "start"
  /\ arguments' \in RunArguments
  /\ UNCHANGED <<trace, result, nested_vars, target_vars>>
  /\ UNCHANGED definition_vars

NextR == RegisterR \/ FinalizeR \/ RuleorderT \/ ExecuteR \/ NextX

SpecR == Init /\ [][NextR]_vars

\* the part of the registry the definition phase builds
registry_vars ==
  <<rules, default_target, _ruleorder, localrules, cache_rules>>

\* execute has been entered and has not returned
Executing == pc \notin {"not called", "returned"}

\* C36: the registry is frozen during a run: from entry to return of
\* execute, on every path, the name-to-Rule mapping with the directive
\* values of each Rule, the default target, the ruleorder clauses, the set of
\* local rules and the cache policy per rule are unchanged
C36_RegistryFrozen == [][Executing => UNCHANGED registry_vars]_vars

\* execute has run to its end, through a nested run and the scheduler, on a
\* registry with a rule, a local rule and a ruleorder clause
C36_Witness ==
  /\ pc = "returned"
  /\ Called("subsnakemake")
  /\ Called("scheduler.schedule")
  /\ rules # <<>>
  /\ localrules # {}
  /\ _ruleorder # <<>>
  /\ default_target # None

\* metadata cleanup was requested for at least one file
CleanupRequested ==
  "cleanup_metadata" \in DOMAIN arguments /\ arguments["cleanup_metadata"] # <<>>

\* C37: metadata cleanup collects partial failures without aborting: the
\* cleanup is attempted for every requested file, also after a file failed,
\* the files that failed are collected in one list for one report, and
\* execute returns True whether none, some or all of the files failed
C37_CleanupCollectsFailures ==
  CleanupRequested
    => LET files == arguments["cleanup_metadata"]
           failed == arguments["failed"]
       IN /\ CallCount("persistence.cleanup_metadata") = Len(files)
          /\ \A i \in DOMAIN files :
               ~files[i] <=> \E j \in DOMAIN failed : failed[j] = i
          /\ \A j, k \in DOMAIN failed : j < k => failed[j] < failed[k]
          /\ Returned("True")

\* the first file failed and the second was cleaned up all the same
C37_Witness ==
  /\ CleanupRequested
  /\ arguments["cleanup_metadata"] = <<FALSE, TRUE>>
  /\ arguments["failed"] = <<1>>
  /\ CallCount("persistence.cleanup_metadata") = 2
  /\ Returned("True")

\* every file failed
C37_WitnessAllFailed ==
  /\ CleanupRequested
  /\ arguments["cleanup_metadata"] = <<FALSE, FALSE>>
  /\ arguments["failed"] = <<1, 2>>
  /\ Returned("True")

\* a graph form was requested and the run got to the pre-flight checks
GraphRequestedAtPreflight ==
  /\ "nodeps" \in DOMAIN arguments
  /\ \E g \in GraphForms : arguments[g]

\* C39: inspection requests are served before the pre-flight checks: with
\* an inspection request set, execute performs the inspection and returns
\* True even when the nodeps mode would find missing inputs or immediate
\* submit is combined with checkpoint jobs
C39_InspectionBeforePreflight ==
  (pc = "returned" /\ GraphRequestedAtPreflight)
    => /\ Returned("True")
       /\ \E i \in DOMAIN trace : trace[i] \in GraphForms

\* the last call finalized a rule with this cache directive
FinalizedWithCache(value) ==
  /\ call.op = "decorate"
  /\ IsSet(call.ruleinfo)
  /\ Get(call.ruleinfo).cache = value

\* C40: the cache policy recorded per rule name only ever holds the values
\* all or omit-software: with caching enabled a cache directive of True is
\* recorded as all, omit-software and all are recorded as given, and any
\* other cache directive value makes finalize fail with an invalid-cache-value
\* error and records nothing
C40_CachePolicyValues ==
  /\ \A k \in DOMAIN cache_rules : cache_rules[k] \in {"all", "omit-software"}
  /\ (enable_cache /\ FinalizedWithCache("bogus"))
       => /\ error.type = "WorkflowError"
          /\ call.name \notin DOMAIN cache_rules

====
